---------------------------- MODULE Spec2Model ----------------------------
(***************************************************************************)
(* EZUI: the lexer -> parser -> compiler front end and the ReactiveState    *)
(* container, modelled as state machines.                                   *)
(*                                                                         *)
(* Text is a sequence of one-character strings.  JavaScript values are      *)
(* tagged records ([t |-> "num", v |-> 0], [t |-> "str", v |-> <<...>>],    *)
(* ...) so that values of different JavaScript types can be compared.       *)
(*                                                                         *)
(* Two specifications:                                                     *)
(*   SpecFrontend  tokenize / parse / compile of a component source         *)
(*   Spec          one ReactiveState instance on the JavaScript event loop  *)
(***************************************************************************)
EXTENDS Integers, Sequences, FiniteSets, TLC

VARIABLES
    \* ---- front end (EZUILexer, EZUIParser, EZUICompiler) ----
    content,        \* EZUILexer.content
    position,       \* EZUILexer.position (0-based, as in the source)
    tokens,         \* EZUILexer.tokens / EZUIParser.tokens
    current,        \* EZUIParser.current (0-based)
    component,      \* the AST that parse builds / compile receives
    result,         \* outcome of the last front-end call
    pc,             \* where the front end is: "lex", "parse", "compile", ...
    \* ---- ReactiveState (one instance) ----
    data,           \* this.data
    listeners,      \* this.listeners
    validation,     \* this.validation: key -> the rules registered for it
    middleware,     \* this.middleware.length (what a stage does is chosen per call)
    history,        \* this.history
    maxHistorySize, \* this.maxHistorySize
    batchedUpdates, \* this.batchedUpdates (a Set of fresh objects: insertion order)
    updateScheduled,\* this.updateScheduled
    \* ---- the JavaScript event loop ----
    phase,          \* "sync": a task's synchronous code runs; "micro": the
                    \* microtask queue drains, and once it is empty the
                    \* next task may start
    turn,           \* number of the current synchronous turn
    mq,             \* the microtask queue
    calls,          \* every update() call issued, in call order (its async frame)
    batchCalls,     \* every updateBatch() call issued, in call order
    invocations,    \* every listener invocation so far, in order
    \* ---- ReactiveState: transactions, undo, computed properties ----
    updateReplaced, \* this.update is the closure transaction() installed
    computedFn,     \* how the function given to computed("sum", fn) reads the
                    \* state: "none" (not defined), "data" (this.data),
                    \* "proxy" (the createProxy() proxy), "plain" (the
                    \* accessor was replaced by a plain value)
    computedCache,  \* this.computedCache.get("sum"), NoValue when absent
    dependencies,   \* this.dependencies.get("sum")
    dirty,          \* an update() wrote a key fn reads since the cache was filled
    removed,        \* the listeners whose unsubscribe function was called
    log,            \* transactions, completed updates and undos, in order
    returned,       \* what the last synchronous call returned or raised
    \* ---- one component instance, its compiler, the EZUI registry ----
    options,        \* EZUICompiler.options
    instance,       \* the fields of the instance
    clock,          \* Date.now(), in milliseconds
    frames,         \* requestAnimationFrame callbacks not yet run
    dispatch,       \* listeners the click being dispatched has still to call
    registry,       \* EZUI.registry and EZUI.metrics
    \* ---- the renders in progress; the ComponentRegistry ----
    renderStack,    \* the render() calls on the call stack, innermost last
    components,     \* ComponentRegistry.components: name -> entry
    instances,      \* ComponentRegistry.instances: element -> instance
    componentCount, \* ComponentRegistry.componentCount
    objects         \* the component instances created so far, by identity

feVars == <<content, position, tokens, current, component, result, pc>>
rsVars == <<data, listeners, validation, middleware, history, maxHistorySize,
            batchedUpdates, updateScheduled>>
loopVars == <<phase, turn, mq, calls, batchCalls, invocations>>
opVars == <<updateReplaced, computedFn, computedCache, dependencies, dirty,
            removed, log, returned>>
ciVars == <<options, instance, clock, frames, dispatch, registry>>
crVars == <<renderStack, components, instances, componentCount, objects>>
vars == <<feVars, rsVars, loopVars, opVars, ciVars, crVars>>

--------------------------------------------------------------------------
(* JavaScript values *)

Null == [t |-> "null"]
Str(s) == [t |-> "str", v |-> s]
Num(n) == [t |-> "num", v |-> n]
Bool(b) == [t |-> "bool", v |-> b]
Obj(m) == [t |-> "obj", v |-> m]
EmptyMap == [k \in {} |-> Null]
Put(m, k, v) == [x \in (DOMAIN m) \cup {k} |-> IF x = k THEN v ELSE m[x]]

\* JavaScript truthiness of the values the model uses: null, "" and 0 are falsy
Truthy(x) ==
    CASE x.t = "null" -> FALSE
      [] x.t = "str" -> x.v # <<>>
      [] x.t = "num" -> x.v # 0 \/ "frac" \in DOMAIN x
      [] x.t = "bool" -> x.v
      [] OTHER -> TRUE

\* Equality of two tagged values, tags first
RECURSIVE SameValue(_, _)
SameValue(a, b) ==
    /\ a.t = b.t
    /\ CASE a.t = "null" -> TRUE
         [] a.t = "obj" -> /\ DOMAIN a.v = DOMAIN b.v
                           /\ \A k \in DOMAIN a.v : SameValue(a.v[k], b.v[k])
         [] OTHER -> a = b

Min(S) == CHOOSE x \in S : \A y \in S : x <= y

--------------------------------------------------------------------------
(* EZUILexer: character classes and cursor primitives *)

NUL == "NUL"                \* what getCurrentChar()/peek() return past the end
Undefined == "undefined"    \* what content[i] is past the end

Lower == {"a","b","c","d","e","f","g","h","i","j","k","l","m",
          "n","o","p","q","r","s","t","u","v","w","x","y","z"}
Upper == {"A","B","C","D","E","F","G","H","I","J","K","L","M",
          "N","O","P","Q","R","S","T","U","V","W","X","Y","Z"}
Digit == {"0","1","2","3","4","5","6","7","8","9"}

\* /[a-zA-Z_]/.test(char): test() converts its argument to a string, so the
\* undefined read past the end is tested as the text "undefined" and matches.
isAlpha(ch) == ch \in Lower \cup Upper \cup {"_"} \/ ch = Undefined
isDigit(ch) == ch \in Digit
isAlphaNumeric(ch) == isAlpha(ch) \/ isDigit(ch)
isWhitespace(ch) == ch \in {" ", "\t", "\n", "\r"}

isAtEnd(s, p) == p >= Len(s)
getCurrentChar(s, p) == IF isAtEnd(s, p) THEN NUL ELSE s[p + 1]
peek(s, p) == IF p + 1 >= Len(s) THEN NUL ELSE s[p + 2]
advance(s, p) == IF isAtEnd(s, p) THEN p ELSE p + 1
\* String.prototype.substring: both ends clamped to [0, length], swapped if a > b
substring(s, a, b) ==
    LET clamp(x) == IF x < 0 THEN 0 ELSE IF x > Len(s) THEN Len(s) ELSE x
        lo == IF clamp(a) <= clamp(b) THEN clamp(a) ELSE clamp(b)
        hi == IF clamp(a) <= clamp(b) THEN clamp(b) ELSE clamp(a)
    IN  SubSeq(s, lo + 1, hi)
getCurrentLine(s, p) == 1 + Cardinality({i \in 1..p : s[i] = "\n"})

\* while (getCurrentChar() is in set) advance();  -- NUL is never in set
scanWhile(s, p, set) ==
    LET stop == {i \in p..(Len(s) - 1) : s[i + 1] \notin set}
    IN  IF stop = {} THEN IF p > Len(s) THEN p ELSE Len(s) ELSE Min(stop)

\* while (getCurrentChar() is not in set && !isAtEnd()) advance();
scanUntil(s, p, set) ==
    LET stop == {i \in p..(Len(s) - 1) : s[i + 1] \in set}
    IN  IF stop = {} THEN IF p > Len(s) THEN p ELSE Len(s) ELSE Min(stop)

DigitVal(ch) ==
    CASE ch = "0" -> 0 [] ch = "1" -> 1 [] ch = "2" -> 2 [] ch = "3" -> 3
      [] ch = "4" -> 4 [] ch = "5" -> 5 [] ch = "6" -> 6 [] ch = "7" -> 7
      [] ch = "8" -> 8 [] ch = "9" -> 9

RECURSIVE DigitsVal(_)
DigitsVal(ds) ==
    IF ds = <<>> THEN 0
    ELSE 10 * DigitsVal(SubSeq(ds, 1, Len(ds) - 1)) + DigitVal(ds[Len(ds)])

\* parseFloat of the text scanNumber cut out: digits, or digits '.' digits.
\* A fraction is kept as its digits.
parseFloat(text) ==
    LET dot == {i \in 1..Len(text) : text[i] = "."}
    IN  IF dot = {} THEN Num(DigitsVal(text))
        ELSE [t |-> "num", v |-> DigitsVal(SubSeq(text, 1, Min(dot) - 1)),
              frac |-> SubSeq(text, Min(dot) + 1, Len(text))]

--------------------------------------------------------------------------
(* EZUILexer: the scanners.  A lexer state is L = [position, tokens, ok];   *)
(* ok = FALSE means the call never returns (a loop that makes no progress). *)

LexState(p, toks) == [position |-> p, tokens |-> toks, ok |-> TRUE]
Hang(p, toks) == [position |-> p, tokens |-> toks, ok |-> FALSE]

\* addToken(type) with value = null: the value is the current character and
\* the cursor advances by one; line is read after the advance.
addTokenChar(s, p, toks, type) ==
    LET q == advance(s, p)
    IN  LexState(q, Append(toks, [type |-> type,
                                  value |-> Str(<<getCurrentChar(s, p)>>),
                                  line |-> getCurrentLine(s, q)]))

\* addToken(type, value): the cursor stays where the scanner left it.
addToken(s, p, toks, type, value) ==
    LexState(p, Append(toks, [type |-> type, value |-> value,
                              line |-> getCurrentLine(s, p)]))

matchKeyword(s, p, keyword) ==
    LET end == p + Len(keyword)
        nextChar == IF end < Len(s) THEN s[end + 1] ELSE Undefined
    IN  IF end > Len(s) THEN FALSE
        ELSE substring(s, p, end) = keyword /\ ~isAlphaNumeric(nextChar)

scanComponentDeclaration(s, p, toks) ==
    LET p1 == advance(s, p)
        \* "Skip 'component'": leaves the loop only at a ' ' or a '>'.  At
        \* the end getCurrentChar() is NUL and advance() does nothing.
        stop == {i \in p1..(Len(s) - 1) : s[i + 1] \in {" ", ">"}}
    IN  IF stop = {} THEN Hang(Len(s), toks)
        ELSE LET p2 == Min(stop)
                 start == scanWhile(s, p2, {" "})
                 p3 == scanUntil(s, start, {">", " "})
                 componentName == substring(s, start, p3)
                 p4 == scanUntil(s, p3, {">"})
                 p5 == IF getCurrentChar(s, p4) = ">" THEN advance(s, p4) ELSE p4
             IN  addToken(s, p5, toks, "COMPONENT", Str(componentName))

\* The opening-tag loop of scanHtmlTag: inAttribute/quoteChar are tracked but
\* the loop still ends at the first '>'.
RECURSIVE scanTagBody(_, _, _, _)
scanTagBody(s, p, inAttribute, quoteChar) ==
    IF getCurrentChar(s, p) = ">" \/ isAtEnd(s, p) THEN p
    ELSE LET ch == getCurrentChar(s, p)
         IN  IF ~inAttribute /\ ch \in {"\"", "'"}
             THEN scanTagBody(s, advance(s, p), TRUE, ch)
             ELSE IF inAttribute /\ ch = quoteChar
             THEN scanTagBody(s, advance(s, p), FALSE, NUL)
             ELSE scanTagBody(s, advance(s, p), inAttribute, quoteChar)

scanHtmlTag(s, p, toks) ==
    LET start == p
        p1 == advance(s, p)
    IN  IF getCurrentChar(s, p1) = "/"
        THEN LET p2 == scanUntil(s, advance(s, p1), {">"})
                 p3 == IF getCurrentChar(s, p2) = ">" THEN advance(s, p2) ELSE p2
             IN  addToken(s, p3, toks, "HTML_TAG", Str(substring(s, start, p3)))
        ELSE LET p2 == scanTagBody(s, p1, FALSE, NUL)
                 p3 == IF getCurrentChar(s, p2) = ">" THEN advance(s, p2) ELSE p2
             IN  addToken(s, p3, toks, "HTML_TAG", Str(substring(s, start, p3)))

RECURSIVE scanStringBody(_, _, _)
scanStringBody(s, p, quote) ==
    IF getCurrentChar(s, p) = quote \/ isAtEnd(s, p) THEN p
    ELSE IF getCurrentChar(s, p) = "\\"
         THEN scanStringBody(s, advance(s, advance(s, p)), quote)
         ELSE scanStringBody(s, advance(s, p), quote)

scanString(s, p, toks) ==
    LET quote == getCurrentChar(s, p)
        start == advance(s, p)
        p1 == scanStringBody(s, start, quote)
        value == substring(s, start, p1)
    IN  addToken(s, advance(s, p1), toks, "STRING", Str(value))

RECURSIVE scanInterpolationBody(_, _, _)
scanInterpolationBody(s, p, braceCount) ==
    IF braceCount <= 0 \/ isAtEnd(s, p) THEN p
    ELSE LET ch == getCurrentChar(s, p)
             bc == IF ch = "{" THEN braceCount + 1
                   ELSE IF ch = "}" THEN braceCount - 1 ELSE braceCount
         IN  IF bc > 0 THEN scanInterpolationBody(s, advance(s, p), bc) ELSE p

scanInterpolation(s, p, toks) ==
    LET start == advance(s, p)
        p1 == scanInterpolationBody(s, start, 1)
        L == addToken(s, p1, toks, "INTERPOLATION", Str(substring(s, start, p1)))
    IN  IF getCurrentChar(s, p1) = "}"
        THEN [L EXCEPT !.position = advance(s, p1)] ELSE L

scanIdentifier(s, p, toks) ==
    LET p1 == scanWhile(s, p, Lower \cup Upper \cup Digit \cup {"_", "-"})
    IN  addToken(s, p1, toks, "IDENTIFIER", Str(substring(s, p, p1)))

scanNumber(s, p, toks) ==
    LET p1 == scanWhile(s, p, Digit)
        p2 == IF getCurrentChar(s, p1) = "." /\ isDigit(peek(s, p1))
              THEN scanWhile(s, advance(s, p1), Digit) ELSE p1
    IN  addToken(s, p2, toks, "NUMBER", parseFloat(substring(s, p, p2)))

operators(ch) ==
    CASE ch = "+" -> "PLUS" [] ch = "-" -> "MINUS" [] ch = "*" -> "MULTIPLY"
      [] ch = "/" -> "DIVIDE" [] ch = "=" -> "ASSIGN" [] ch = ":" -> "COLON"
      [] ch = ";" -> "SEMICOLON" [] ch = "," -> "COMMA" [] ch = "." -> "DOT"
      [] ch = "!" -> "NOT" [] ch = "&" -> "AND" [] ch = "|" -> "OR"
      [] OTHER -> "TEXT"

\* A two-character operator: two advances, then addToken(type) with a null
\* value, which takes the character AFTER the operator as the value and
\* advances over it too.
scanTwoCharOperator(s, p, toks, type) ==
    addTokenChar(s, advance(s, advance(s, p)), toks, type)

scanOperator(s, p, toks) ==
    LET ch == getCurrentChar(s, p)
    IN  IF ch = "+" /\ peek(s, p) = "+" THEN scanTwoCharOperator(s, p, toks, "INCREMENT")
        ELSE IF ch = "-" /\ peek(s, p) = "-" THEN scanTwoCharOperator(s, p, toks, "DECREMENT")
        ELSE IF ch = "=" /\ peek(s, p) = "=" THEN scanTwoCharOperator(s, p, toks, "EQUAL")
        ELSE IF ch = "!" /\ peek(s, p) = "=" THEN scanTwoCharOperator(s, p, toks, "NOT_EQUAL")
        ELSE IF operators(ch) # "TEXT" THEN addTokenChar(s, p, toks, operators(ch))
        ELSE addToken(s, p, toks, "TEXT", Str(<<ch>>))

skipLineComment(s, p) == scanUntil(s, p, {"\n"})

RECURSIVE skipBlockCommentBody(_, _)
skipBlockCommentBody(s, p) ==
    IF isAtEnd(s, p) THEN p
    ELSE IF getCurrentChar(s, p) = "*" /\ peek(s, p) = "/"
         THEN advance(s, advance(s, p))
         ELSE skipBlockCommentBody(s, advance(s, p))

skipBlockComment(s, p) == skipBlockCommentBody(s, advance(s, advance(s, p)))

\* Position of the last occurrence of pat in s[0..limit), or -1.
lastIndexOf(s, limit, pat) ==
    LET hits == {i \in 0..(limit - Len(pat)) : substring(s, i, i + Len(pat)) = pat}
    IN  IF hits = {} THEN -1 ELSE CHOOSE i \in hits : \A j \in hits : j <= i

isInTemplate(s, p) ==
    lastIndexOf(s, p, <<"t","e","m","p","l","a","t","e"," ","{">>)
        > lastIndexOf(s, p, <<"}">>)

\* One call of scanToken(), in the order of its tests.
scanToken(s, p, toks) ==
    LET ch == getCurrentChar(s, p)
    IN  IF isWhitespace(ch) THEN LexState(advance(s, p), toks)
        ELSE IF ch = "/" /\ peek(s, p) = "/" THEN LexState(skipLineComment(s, p), toks)
        ELSE IF ch = "/" /\ peek(s, p) = "*" THEN LexState(skipBlockComment(s, p), toks)
        ELSE IF ch = "<"
             THEN IF substring(s, p + 1, p + 10) = <<"c","o","m","p","o","n","e","n","t">>
                  THEN scanComponentDeclaration(s, p, toks)
                  ELSE scanHtmlTag(s, p, toks)
        ELSE IF matchKeyword(s, p, <<"s","t","y","l","e">>)
             THEN addTokenChar(s, p, toks, "STYLE_BLOCK")
        ELSE IF matchKeyword(s, p, <<"s","t","a","t","e">>)
             THEN addTokenChar(s, p, toks, "STATE_BLOCK")
        ELSE IF matchKeyword(s, p, <<"t","e","m","p","l","a","t","e">>)
             THEN addTokenChar(s, p, toks, "TEMPLATE_BLOCK")
        ELSE IF matchKeyword(s, p, <<"p","r","o","p","s">>)
             THEN addTokenChar(s, p, toks, "PROPS_BLOCK")
        ELSE IF ch = "{" THEN addTokenChar(s, p, toks, "LEFT_BRACE")
        ELSE IF ch = "}" THEN addTokenChar(s, p, toks, "RIGHT_BRACE")
        ELSE IF ch = "(" THEN addTokenChar(s, p, toks, "LEFT_PAREN")
        ELSE IF ch = ")" THEN addTokenChar(s, p, toks, "RIGHT_PAREN")
        ELSE IF ch \in {"\"", "'"} THEN scanString(s, p, toks)
        ELSE IF ch = "{" /\ isInTemplate(s, p) THEN scanInterpolation(s, p, toks)
        ELSE IF isAlpha(ch) THEN scanIdentifier(s, p, toks)
        ELSE IF isDigit(ch) THEN scanNumber(s, p, toks)
        ELSE scanOperator(s, p, toks)

EOFToken(s, p) == [type |-> "EOF", value |-> Str(<<>>), line |-> getCurrentLine(s, p)]

\* The loop of tokenize() never ends when a scanToken() call never returns,
\* or returns with the cursor where it was: scanToken() depends only on the
\* content and the cursor, so every later call does the same (and pushes
\* the same token again).
LoopsForever(p, L) == ~L.ok \/ L.position = p

--------------------------------------------------------------------------
(* EZUIParser.  A parse function returns [st, cur, val]: st = "ok" (val is  *)
(* the value, cur the new cursor), "throw" (val is the message) or "hang"   *)
(* (the call never returns).                                               *)

Ok(c, v) == [st |-> "ok", cur |-> c, val |-> v]
Throw(c, m) == [st |-> "throw", cur |-> c, val |-> m]
Never(c) == [st |-> "hang", cur |-> c, val |-> "never returns"]

pPeek(toks, c) ==
    IF c < Len(toks) THEN toks[c + 1]
    ELSE [type |-> "EOF", value |-> Str(<<>>), line |-> 0]
pIsAtEnd(toks, c) == c >= Len(toks) \/ pPeek(toks, c).type = "EOF"
pAdvance(toks, c) == IF pIsAtEnd(toks, c) THEN c ELSE c + 1
check(toks, c, type) == ~pIsAtEnd(toks, c) /\ pPeek(toks, c).type = type
consume(toks, c, type, message) ==
    IF check(toks, c, type) THEN Ok(pAdvance(toks, c), pPeek(toks, c))
    ELSE Throw(c, message)

RECURSIVE NumToChars(_)
NumToChars(n) ==
    LET d == <<"0","1","2","3","4","5","6","7","8","9">>
    IN  IF n < 10 THEN <<d[n + 1]>> ELSE NumToChars(n \div 10) \o <<d[(n % 10) + 1]>>

\* String(value) of a token value, as used by "text += token.value".
ToText(value) ==
    IF value.t = "str" THEN value.v
    ELSE IF "frac" \in DOMAIN value
         THEN NumToChars(value.v) \o <<".">> \o value.frac
         ELSE NumToChars(value.v)

trim(s) ==
    LET keep == {i \in 1..Len(s) : ~isWhitespace(s[i])}
    IN  IF keep = {} THEN <<>>
        ELSE SubSeq(s, Min(keep), CHOOSE i \in keep : \A j \in keep : j <= i)

\* text.replace(pat, ''): the first occurrence of pat removed.
removeFirst(s, pat) ==
    LET hits == {i \in 0..(Len(s) - Len(pat)) : substring(s, i, i + Len(pat)) = pat}
    IN  IF hits = {} THEN s
        ELSE substring(s, 0, Min(hits)) \o substring(s, Min(hits) + Len(pat), Len(s))

parseComponentName(toks, c) ==
    Ok(pAdvance(toks, c), Str(removeFirst(pPeek(toks, c).value.v, <<".","e","z","u">>)))

RECURSIVE parseValue(_, _)
RECURSIVE parseObjectLoop(_, _, _)

parseObject(toks, c) ==
    LET open == consume(toks, c, "LEFT_BRACE", "Expected {")
    IN  IF open.st # "ok" THEN open ELSE parseObjectLoop(toks, open.cur, EmptyMap)

parseObjectLoop(toks, c, obj) ==
    IF check(toks, c, "RIGHT_BRACE") \/ pIsAtEnd(toks, c)
    THEN LET close == consume(toks, c, "RIGHT_BRACE", "Expected }")
         IN  IF close.st # "ok" THEN close ELSE Ok(close.cur, Obj(obj))
    ELSE LET key == pPeek(toks, c)
             c1 == pAdvance(toks, c)
         IN  IF key.type \notin {"IDENTIFIER", "STRING"}
             THEN Throw(c1, "Expected property name")
             ELSE LET colon == consume(toks, c1, "COLON", "Expected : after property name")
                  IN  IF colon.st # "ok" THEN colon
                      ELSE LET value == parseValue(toks, colon.cur)
                           IN  IF value.st # "ok" THEN value
                               ELSE parseObjectLoop(toks,
                                        IF check(toks, value.cur, "COMMA")
                                        THEN pAdvance(toks, value.cur) ELSE value.cur,
                                        Put(obj, key.value.v, value.val))

parseValue(toks, c) ==
    LET token == pPeek(toks, c)
    IN  CASE token.type \in {"NUMBER", "STRING"} -> Ok(pAdvance(toks, c), token.value)
          [] token.type = "IDENTIFIER" ->
                Ok(pAdvance(toks, c),
                   IF token.value.v = <<"t","r","u","e">> THEN Bool(TRUE)
                   ELSE IF token.value.v = <<"f","a","l","s","e">> THEN Bool(FALSE)
                   ELSE IF token.value.v = <<"n","u","l","l">> THEN Null
                   ELSE token.value)
          [] token.type = "LEFT_BRACE" -> parseObject(toks, c)
          [] OTHER -> Throw(c, "Unexpected token type")

\* val is [name, value]
parseStateProperty(toks, c) ==
    LET nameToken == pPeek(toks, c)
        c1 == pAdvance(toks, c)
    IN  IF nameToken.type # "IDENTIFIER" THEN Throw(c1, "Expected property name")
        ELSE LET colon == consume(toks, c1, "COLON", "Expected : after property name")
             IN  IF colon.st # "ok" THEN colon
                 ELSE LET value == parseValue(toks, colon.cur)
                      IN  IF value.st # "ok" THEN value
                          ELSE Ok(IF check(toks, value.cur, "SEMICOLON")
                                  THEN pAdvance(toks, value.cur) ELSE value.cur,
                                  [name |-> nameToken.value.v, value |-> value.val])

RECURSIVE parseStateLoop(_, _, _, _)
parseStateLoop(toks, c, state, closeMessage) ==
    IF check(toks, c, "RIGHT_BRACE") \/ pIsAtEnd(toks, c)
    THEN LET close == consume(toks, c, "RIGHT_BRACE", closeMessage)
         IN  IF close.st # "ok" THEN close ELSE Ok(close.cur, state)
    ELSE LET property == parseStateProperty(toks, c)
         IN  IF property.st # "ok" THEN property
             ELSE parseStateLoop(toks, property.cur,
                                 Put(state, property.val.name, property.val.value),
                                 closeMessage)

parseStateBlock(toks, c) ==
    LET open == consume(toks, pAdvance(toks, c), "LEFT_BRACE", "Expected { after state")
    IN  IF open.st # "ok" THEN open
        ELSE parseStateLoop(toks, open.cur, EmptyMap, "Expected } after state block")

parsePropsBlock(toks, c) ==
    LET open == consume(toks, pAdvance(toks, c), "LEFT_BRACE", "Expected { after props")
    IN  IF open.st # "ok" THEN open
        ELSE parseStateLoop(toks, open.cur, EmptyMap, "Expected } after props block")

\* parseSelector: every branch appends the token's text.
RECURSIVE parseSelectorLoop(_, _, _)
parseSelectorLoop(toks, c, selector) ==
    IF check(toks, c, "LEFT_BRACE") \/ pIsAtEnd(toks, c) THEN Ok(c, trim(selector))
    ELSE parseSelectorLoop(toks, pAdvance(toks, c),
                           selector \o ToText(pPeek(toks, c).value))

parseSelector(toks, c) == parseSelectorLoop(toks, c, <<>>)

RECURSIVE parsePropertyName(_, _, _)
parsePropertyName(toks, c, name) ==
    IF check(toks, c, "COLON") \/ pIsAtEnd(toks, c) THEN Ok(c, name)
    ELSE LET token == pPeek(toks, c)
         IN  parsePropertyName(toks, pAdvance(toks, c),
                 IF token.type \in {"IDENTIFIER", "TEXT"} THEN name \o token.value.v
                 ELSE IF token.type = "MINUS" THEN name \o <<"-">>
                 ELSE name)

RECURSIVE parsePropertyValue(_, _, _)
parsePropertyValue(toks, c, value) ==
    IF check(toks, c, "SEMICOLON") \/ check(toks, c, "RIGHT_BRACE") \/ pIsAtEnd(toks, c)
    THEN Ok(c, value)
    ELSE LET token == pPeek(toks, c)
         IN  IF token.value.t = "str" /\ token.value.v = <<"\n">> THEN Ok(pAdvance(toks, c), value)
             ELSE parsePropertyValue(toks, pAdvance(toks, c),
                     IF token.type = "STRING"
                     THEN value \o <<"\"">> \o token.value.v \o <<"\"">>
                     ELSE value \o ToText(token.value))

\* val is [name, value]
parseStyleProperty(toks, c) ==
    LET name == parsePropertyName(toks, c, <<>>)
        c1 == IF check(toks, name.cur, "COLON") THEN pAdvance(toks, name.cur) ELSE name.cur
        value == parsePropertyValue(toks, c1, <<>>)
        c2 == IF check(toks, value.cur, "SEMICOLON")
              THEN pAdvance(toks, value.cur) ELSE value.cur
    IN  Ok(c2, [name |-> trim(name.val), value |-> trim(value.val)])

RECURSIVE parseStylePropertiesLoop(_, _, _)
parseStylePropertiesLoop(toks, c, properties) ==
    IF check(toks, c, "RIGHT_BRACE") \/ pIsAtEnd(toks, c)
    THEN LET close == consume(toks, c, "RIGHT_BRACE", "Expected } after style properties")
         IN  IF close.st # "ok" THEN close ELSE Ok(close.cur, properties)
    ELSE LET property == parseStyleProperty(toks, c)
         IN  parseStylePropertiesLoop(toks, property.cur,
                 Put(properties, property.val.name, Str(property.val.value)))

\* val is Null (no selector) or [selector, properties]
parseStyleRule(toks, c) ==
    LET selector == parseSelector(toks, c)
    IN  IF selector.val = <<>> THEN Ok(selector.cur, Null)
        ELSE LET open == consume(toks, selector.cur, "LEFT_BRACE", "Expected { after selector")
             IN  IF open.st # "ok" THEN open
                 ELSE LET props == parseStylePropertiesLoop(toks, open.cur, EmptyMap)
                      IN  IF props.st # "ok" THEN props
                          ELSE Ok(props.cur, [t |-> "rule", selector |-> selector.val,
                                              properties |-> Obj(props.val)])

\* The rule loop of parseStyleBlock.  A rule with an empty selector is
\* skipped; if it consumed no token the loop repeats from the same cursor.
RECURSIVE parseStyleLoop(_, _, _)
parseStyleLoop(toks, c, styles) ==
    IF check(toks, c, "RIGHT_BRACE") \/ pIsAtEnd(toks, c)
    THEN LET close == consume(toks, c, "RIGHT_BRACE", "Expected } after style block")
         IN  IF close.st # "ok" THEN close ELSE Ok(close.cur, Obj(styles))
    ELSE LET rule == parseStyleRule(toks, c)
         IN  IF rule.st # "ok" THEN rule
             ELSE IF rule.val.t = "null"
                  THEN IF rule.cur = c THEN Never(c)
                       ELSE parseStyleLoop(toks, rule.cur, styles)
                  ELSE parseStyleLoop(toks, rule.cur,
                                      Put(styles, rule.val.selector, rule.val.properties))

parseStyleBlock(toks, c) ==
    LET open == consume(toks, pAdvance(toks, c), "LEFT_BRACE", "Expected { after style")
    IN  IF open.st # "ok" THEN open ELSE parseStyleLoop(toks, open.cur, EmptyMap)

\* /\{([^}]+)\}/g over the template text, from 0-based offset from.
RECURSIVE findInterpolations(_, _)
findInterpolations(text, from) ==
    LET opens == {i \in from..(Len(text) - 1) :
                     /\ text[i + 1] = "{"
                     /\ i + 1 < Len(text) /\ text[i + 2] # "}"
                     /\ \E j \in (i + 2)..(Len(text) - 1) : text[j + 1] = "}"}
    IN  IF opens = {} THEN <<>>
        ELSE LET i == Min(opens)
                 j == Min({k \in (i + 2)..(Len(text) - 1) : text[k + 1] = "}"})
             IN  <<[expression |-> trim(substring(text, i + 1, j)),
                    placeholder |-> substring(text, i, j + 1),
                    index |-> i]>> \o findInterpolations(text, j + 1)

WordChar == Lower \cup Upper \cup Digit \cup {"_"}

\* One match of /on:(\w+)=["']([^"']+)["']/ starting exactly at offset i:
\* the offset after the match, or -1.
eventMatchEnd(text, i) ==
    IF substring(text, i, i + 3) # <<"o","n",":">> THEN -1
    ELSE LET w == scanWhile(text, i + 3, WordChar)
         IN  IF w = i + 3 \/ getCurrentChar(text, w) # "="
                \/ getCurrentChar(text, w + 1) \notin {"\"", "'"} THEN -1
             ELSE LET h == scanUntil(text, w + 2, {"\"", "'"})
                  IN  IF h = w + 2 \/ isAtEnd(text, h) THEN -1 ELSE h + 1

RECURSIVE findEvents(_, _)
findEvents(text, from) ==
    LET hits == {i \in from..(Len(text) - 1) : eventMatchEnd(text, i) # -1}
    IN  IF hits = {} THEN <<>>
        ELSE LET i == Min(hits)
                 e == eventMatchEnd(text, i)
                 w == scanWhile(text, i + 3, WordChar)
             IN  <<[event |-> substring(text, i + 3, w),
                    handler |-> substring(text, w + 2, e - 1),
                    binding |-> substring(text, i, e)]>> \o findEvents(text, e)

parseTemplate(text) ==
    [t |-> "template", html |-> text,
     interpolations |-> findInterpolations(text, 0),
     events |-> findEvents(text, 0)]

RECURSIVE parseTemplateLoop(_, _, _, _)
parseTemplateLoop(toks, c, braceCount, templateContent) ==
    IF braceCount <= 0 \/ pIsAtEnd(toks, c) THEN Ok(c, parseTemplate(trim(templateContent)))
    ELSE LET token == pPeek(toks, c)
             c1 == pAdvance(toks, c)
         IN  CASE token.type = "LEFT_BRACE" ->
                    parseTemplateLoop(toks, c1, braceCount + 1, templateContent \o <<"{">>)
               [] token.type = "RIGHT_BRACE" ->
                    parseTemplateLoop(toks, c1, braceCount - 1,
                        IF braceCount - 1 > 0 THEN templateContent \o <<"}">>
                        ELSE templateContent)
               [] token.type = "INTERPOLATION" ->
                    parseTemplateLoop(toks, c1, braceCount,
                        templateContent \o <<"{">> \o token.value.v \o <<"}">>)
               [] token.type = "STRING" ->
                    parseTemplateLoop(toks, c1, braceCount,
                        templateContent \o <<"\"">> \o token.value.v \o <<"\"">>)
               [] token.type = "NUMBER" ->      \* not a string: dropped
                    parseTemplateLoop(toks, c1, braceCount, templateContent)
               [] OTHER ->
                    parseTemplateLoop(toks, c1, braceCount, templateContent \o token.value.v)

parseTemplateBlock(toks, c) ==
    LET open == consume(toks, pAdvance(toks, c), "LEFT_BRACE", "Expected { after template")
    IN  IF open.st # "ok" THEN open ELSE parseTemplateLoop(toks, open.cur, 1, <<>>)

\* The empty AST parse() starts from.
NewComponent ==
    [type |-> "Component", name |-> Null, style |-> Null, state |-> Obj(EmptyMap),
     props |-> Obj(EmptyMap), template |-> Null]

\* One iteration of the top-level loop of parse(): [st, cur, val = the AST].
\* parse(): "component.x = this.parseX()" with the result r of the parse
\* function; an error leaves parse() at once.
assignBlock(type, r, ast) ==
    IF r.st # "ok" THEN r
    ELSE Ok(r.cur,
            CASE type = "COMPONENT" -> [ast EXCEPT !.name = r.val]
              [] type = "STYLE_BLOCK" -> [ast EXCEPT !.style = r.val]
              [] type = "STATE_BLOCK" -> [ast EXCEPT !.state = Obj(r.val)]
              [] type = "PROPS_BLOCK" -> [ast EXCEPT !.props = Obj(r.val)]
              [] type = "TEMPLATE_BLOCK" -> [ast EXCEPT !.template = r.val]
              [] OTHER -> ast)

\* parse(): the switch on the type of the current token
parseBlock(type, toks, c) ==
    CASE type = "COMPONENT" -> parseComponentName(toks, c)
      [] type = "STYLE_BLOCK" -> parseStyleBlock(toks, c)
      [] type = "STATE_BLOCK" -> parseStateBlock(toks, c)
      [] type = "PROPS_BLOCK" -> parsePropsBlock(toks, c)
      [] type = "TEMPLATE_BLOCK" -> parseTemplateBlock(toks, c)
      [] OTHER -> Ok(pAdvance(toks, c), Null)

parseDispatch(toks, c, ast) ==
    assignBlock(pPeek(toks, c).type, parseBlock(pPeek(toks, c).type, toks, c), ast)

--------------------------------------------------------------------------
(* EZUICompiler *)

\* The methods class EZUICompiler defines.  A call this.m(...) of a method
\* that is not among them raises a TypeError (m is undefined).
EZUICompilerMethods ==
    {"compile", "validateAST", "validateStateObject", "validateStyleObject",
     "generateComponentClass", "getCompilationErrors", "clearErrors"}

\* The methods of the class that generateComponentClass returns.
ComponentClassMethods ==
    {"setupStateValidation", "setupErrorBoundary", "handleComponentError",
     "scheduleRender", "safeRender", "updateMetrics", "mount", "render",
     "updateDOM", "generateStyles", "scopeSelector", "processTemplate",
     "sanitizeHtml", "evaluateExpression", "safeExpressionEval",
     "getNestedProperty", "safeEval", "validateExpression",
     "attachEventListeners", "handleEvent", "executeEventHandler",
     "evaluateExpressionWithEvent", "sanitizeComponentName", "kebabCase",
     "escapeHtml", "onMount", "onUnmount", "getMetrics", "estimateMemoryUsage",
     "destroy", "connectedCallback", "disconnectedCallback",
     "attributeChangedCallback"}

\* key.match(/^[a-zA-Z_][a-zA-Z0-9_]*$/)
isIdentifierKey(key) ==
    /\ key # <<>>
    /\ key[1] \in Lower \cup Upper \cup {"_"}
    /\ \A i \in 1..Len(key) : key[i] \in WordChar

\* TRUE when validateStateObject(state) returns, FALSE when it throws.
RECURSIVE validateStateObject(_)
validateStateObject(state) ==
    \A key \in DOMAIN state :
        /\ isIdentifierKey(key)
        /\ state[key].t = "obj" => validateStateObject(state[key].v)

validateStyleObject(style) ==
    \A selector \in DOMAIN style : style[selector].t = "obj"

\* "ok", or the message of the error validateAST throws.
validateAST(ast) ==
    IF ~Truthy(ast.name) THEN "Component must have a name"
    ELSE IF Truthy(ast.template) /\ ast.template.html = <<>>
         THEN "Template must have HTML content"
    ELSE IF Truthy(ast.state) /\ ~validateStateObject(ast.state.v)
         THEN "Invalid state property name"
    ELSE IF Truthy(ast.style) /\ ~validateStyleObject(ast.style.v)
         THEN "Invalid CSS properties for selector"
    ELSE "ok"

toLowerCase(ch) ==
    LET lo == <<"a","b","c","d","e","f","g","h","i","j","k","l","m",
                "n","o","p","q","r","s","t","u","v","w","x","y","z">>
        up == <<"A","B","C","D","E","F","G","H","I","J","K","L","M",
                "N","O","P","Q","R","S","T","U","V","W","X","Y","Z">>
    IN  IF ch \in Upper THEN lo[CHOOSE i \in 1..26 : up[i] = ch] ELSE ch

sanitizeComponentName(name) ==
    IF ~Truthy(name) THEN <<"e","z","u","i","-","c","o","m","p","o","n","e","n","t">>
    ELSE [i \in 1..Len(name.v) |->
            IF toLowerCase(name.v[i]) \in Lower \cup Digit \cup {"-"}
            THEN toLowerCase(name.v[i]) ELSE "-"]

\* The Component Definition: the class closed over ast and componentName.
generateComponentClass(ast, componentName) ==
    [t |-> "definition", componentName |-> componentName, ast |-> ast]

\* The state keys of an instance: new ReactiveState(ast.state || {}).
InstanceStateKeys(definition) ==
    IF ~Truthy(definition.ast.state) THEN {} ELSE DOMAIN definition.ast.state.v

\* compile(ast): [st |-> "ok", val |-> the definition] or [st |-> "throw"].
compile(ast) ==
    LET v == validateAST(ast)
    IN  IF v # "ok" THEN [st |-> "throw", val |-> v]
        ELSE IF "sanitizeComponentName" \notin EZUICompilerMethods
             THEN [st |-> "throw", val |-> "this.sanitizeComponentName is not a function"]
             ELSE [st |-> "ok",
                   val |-> generateComponentClass(ast, sanitizeComponentName(ast.name))]

--------------------------------------------------------------------------
(* The component sources and ASTs the front end is run on.  A sample block  *)
(* carries the meaning the source format gives it (keys: the declared       *)
(* top-level state), which is what the claims compare the AST with.         *)

kCount == <<"c","o","u","n","t">>
kName == <<"n","a","m","e">>
kUser == <<"u","s","e","r">>
kAge == <<"a","g","e">>
kTitle == <<"t","i","t","l","e">>
kButton == <<"b","u","t","t","o","n">>
kColor == <<"c","o","l","o","r">>
sCounter == <<"C","o","u","n","t","e","r">>

\* header: the text; name: the declared component name (Null: none);
\* closed: the header has the form <component Name.ezu>
Headers ==
    { [text |-> <<>>, name |-> Null, closed |-> FALSE],
      [text |-> <<"<","c","o","m","p","o","n","e","n","t"," ","C","o","u","n","t","e","r",".","e","z","u",">">>, name |-> Str(sCounter), closed |-> TRUE],
      [text |-> <<"\n","<","c","o","m","p","o","n","e","n","t"," ","C","o","u","n","t","e","r",".","e","z","u",">","\n">>, name |-> Str(sCounter), closed |-> TRUE],
      [text |-> <<"<","c","o","m","p","o","n","e","n","t"," ","C","o","u","n","t","e","r",".","e","z","u">>, name |-> Str(sCounter), closed |-> FALSE],
      [text |-> <<"<","c","o","m","p","o","n","e","n","t">>, name |-> Null, closed |-> FALSE] }

StyleBlocks ==
    { [text |-> <<>>, present |-> FALSE],
      [text |-> <<"\n","s","t","y","l","e"," ","{","\n"," "," ","b","u","t","t","o","n"," ","{","\n"," "," "," "," ","c","o","l","o","r",":"," ","b","l","u","e","\n"," "," ","}","\n","}","\n">>, present |-> TRUE],
      [text |-> <<"s","t","y","l","e","{","b","u","t","t","o","n",":","h","o","v","e","r","{","c","o","l","o","r",":","r","e","d",";","}","}">>, present |-> TRUE] }

StateBlocks ==
    { [text |-> <<>>, present |-> FALSE, keys |-> EmptyMap],
      [text |-> <<"\n","s","t","a","t","e"," ","{","\n"," "," ","c","o","u","n","t",":"," ","0","\n","}","\n">>, present |-> TRUE,
       keys |-> Put(EmptyMap, kCount, Num(0))],
      [text |-> <<"s","t","a","t","e","{","c","o","u","n","t",":","0","}">>, present |-> TRUE,
       keys |-> Put(EmptyMap, kCount, Num(0))],
      [text |-> <<"s","t","a","t","e"," ","{"," ","n","a","m","e",":"," ","\"","W","o","r","l","d","\""," ","c","o","u","n","t",":"," ","4","2",";"," ","}">>, present |-> TRUE,
       keys |-> Put(Put(EmptyMap, kName, Str(<<"W","o","r","l","d">>)), kCount, Num(42))],
      [text |-> <<"s","t","a","t","e"," ","{"," ","u","s","e","r",":"," ","{"," ","a","g","e",":"," ","3"," ","}"," ","}">>, present |-> TRUE,
       keys |-> Put(EmptyMap, kUser, Obj(Put(EmptyMap, kAge, Num(3))))] }

\* spans: the texts between the braces of the '{expr}' spans of the markup
TemplateBlocks ==
    { [text |-> <<>>, present |-> FALSE, spans |-> <<>>],
      [text |-> <<"\n","t","e","m","p","l","a","t","e"," ","{","\n"," "," ","<","b","u","t","t","o","n"," ","o","n",":","c","l","i","c","k","=","\"","c","o","u","n","t","+","+","\"",">","C","o","u","n","t",":"," ","{","c","o","u","n","t","}","<","/","b","u","t","t","o","n",">","\n","}","\n">>, present |-> TRUE,
       spans |-> <<kCount>>],
      [text |-> <<"t","e","m","p","l","a","t","e"," ","{"," ","<","d","i","v",">","{","c","o","u","n","t","}","<","/","d","i","v",">"," ","}">>, present |-> TRUE,
       spans |-> <<kCount>>],
      [text |-> <<"t","e","m","p","l","a","t","e"," ","{"," ","<","p",">","{"," ","n","a","m","e"," ","}"," ","{","c","o","u","n","t","}","<","/","p",">"," ","}">>, present |-> TRUE,
       spans |-> <<<<" ">> \o kName \o <<" ">>, kCount>>] }

\* Text after the last block.
Tails == { <<>>, <<" ">>, <<">">>, <<"/","/"," ","e","n","d">>, <<"s","t","a","t","e">> }

SourceParts == [header : Headers, style : StyleBlocks, state : StateBlocks,
                template : TemplateBlocks, tail : Tails]

SourceText(src) ==
    src.header.text \o src.style.text \o src.state.text \o src.template.text \o src.tail

\* ASTs handed to compile() directly (the build tool's compile(ast) call).
AstNames == {Null, Str(<<>>), Str(sCounter)}
AstTemplates ==
    {Null, parseTemplate(<<>>), parseTemplate(<<"<","d","i","v",">","{","c","o","u","n","t","}","<","/","d","i","v",">">>)}
AstStates ==
    {Null, Obj(EmptyMap), Obj(Put(EmptyMap, kCount, Num(0))),
     Obj(Put(EmptyMap, <<"m","y","-","k","e","y">>, Num(0))),
     Obj(Put(EmptyMap, kUser, Obj(Put(EmptyMap, kAge, Num(3))))),
     Obj(Put(EmptyMap, kUser, Obj(Put(EmptyMap, <<"b","a","d"," ","k","e","y">>, Num(3)))))}
AstProps ==
    {Obj(EmptyMap), Obj(Put(EmptyMap, kTitle, Str(<<"x">>))),
     Obj(Put(EmptyMap, <<"d","a","t","a","-","i","d">>, Num(1))),
     Obj(Put(EmptyMap, kUser, Obj(Put(EmptyMap, <<"9","x">>, Num(1)))))}
AstStyles ==
    {Null, Obj(Put(EmptyMap, kButton, Obj(Put(EmptyMap, kColor, Str(<<"b","l","u","e">>))))),
     Obj(Put(EmptyMap, kButton, Str(<<"r","e","d">>)))}

DirectASTs ==
    { [type |-> "Component", name |-> n, style |-> sy, state |-> st,
       props |-> pr, template |-> te] :
        n \in AstNames, sy \in AstStyles, st \in AstStates,
        pr \in AstProps, te \in AstTemplates }

--------------------------------------------------------------------------

(***************************************************************************)
(* ReactiveState (src/runtime/reactivity.js) on the JavaScript event loop. *)
(* A task runs its synchronous code to the end ("sync"), then the          *)
(* microtask queue drains in FIFO order ("micro"); with the queue empty    *)
(* the next task starts.  Every "await" and every Promise.then() costs one *)
(* microtask.  State values are 0 and 1; what a validator accepts and what *)
(* a middleware stage does with a value is chosen by the environment.      *)
(***************************************************************************)

\* ---- bounds ----
MaxCalls == 2           \* update() and updateBatch() calls issued in one behaviour
MaxBatchCalls == 1      \* updateBatch() calls among them
MaxMiddleware == 1      \* middleware stages registered
MaxOps == 3             \* calls of any kind (update, transaction, undo) issued
MaxWrites == 2          \* update() calls made by the function given to transaction()
HistoryCap == 1         \* maxHistorySize of the instance (50 by default)

Keys == {"a", "b"}
Values == {0, 1}
initialState == [k \in Keys |-> 0]

\* a validator, given by the values it accepts: the one here is "v => v > 0"
Validators == {Values \ {0}}
\* what a middleware stage may change a value into
Transform(v) == 1 - v

\* the listeners user code registers: a plain onChange callback, and the
\* closure watch(property, callback) builds
OnChangeListener == [kind |-> "onChange", property |-> ""]
WatchListener(k) == [kind |-> "watch", property |-> k]
WatchKeys == {"a"}
\* the keys user code registers a validator for
ValidatedKeys == {"a"}

\* no entry: what Map.get() answers when has() is false
NoValue == 0 - 1

\* the function given to computed("sum", fn): () => data.a + data.b
computeFn(d) == d["a"] + d["b"]
\* the keys it reads
computeReads == {"a", "b"}

\* a change to key k goes stale in the cache of the computed property
Stales(k, old, new) == computedCache # NoValue /\ k \in computeReads /\ old # new

Change(k, v, old, id) == [property |-> k, value |-> v, oldValue |-> old, id |-> id]
Task(kind, id, changes) == [kind |-> kind, id |-> id, changes |-> changes]

RECURSIVE SeqMax(_)
SeqMax(s) == IF s = <<>> THEN 0
             ELSE LET m == SeqMax(Tail(s)) IN IF Head(s) > m THEN Head(s) ELSE m

\* validateProperty(property, value).valid
validateProperty(k, v) == \A i \in 1 .. Len(validation[k]) : v \in validation[k][i]

\* changes.find(c => c.property === property): index of the first match, 0 if none
find(changes, k) ==
    IF \E i \in 1 .. Len(changes) : changes[i].property = k
    THEN CHOOSE i \in 1 .. Len(changes) :
           /\ changes[i].property = k
           /\ \A j \in 1 .. i - 1 : changes[j].property # k
    ELSE 0

\* the closure watch(property, callback) registers: what it calls callback with
watchListener(k, changes) ==
    LET i == find(changes, k)
    IN  IF i = 0 THEN [called |-> FALSE, newValue |-> 0, oldValue |-> 0]
        ELSE [called |-> TRUE, newValue |-> changes[i].value,
              oldValue |-> changes[i].oldValue]

\* one listener(this.data, changes) call, as logged
Invocation(l, src, n, changes, state) ==
    [listener |-> l, src |-> src, n |-> n, changes |-> changes, state |-> state]

\* a callback that throws whenever it is called
RaisingListener == [kind |-> "raising", property |-> ""]

\* the loop over the listeners without the try/catch around the call: the
\* first error leaves the loop
invoked_NoCatch(ls) ==
    IF \E i \in 1 .. Len(ls) : ls[i] = RaisingListener
    THEN SubSeq(ls, 1, CHOOSE i \in 1 .. Len(ls) :
                         /\ ls[i] = RaisingListener
                         /\ \A j \in 1 .. i - 1 : ls[j] # RaisingListener)
    ELSE ls

\* the listeners the loop calls: "try { listener(this.data, updates) }
\* catch (error) { console.error(...) }" goes on to the next one
invoked(ls) == ls

\* "for (const listener of this.listeners) listener(this.data, changes)"
notifyAll(src, n, changes, state) ==
    [i \in 1 .. Len(invoked(listeners)) |->
        Invocation(invoked(listeners)[i], src, n, changes, state)]

\* the listener the constructor of a component instance registers:
\* (changedState) => this.scheduleRender()
RenderListener == [kind |-> "render", property |-> ""]

\* scheduleRender(): nothing once destroyed; else queue the request and,
\* unless a render is running, ask for an animation frame
scheduleRender ==
    IF instance.isDestroyed THEN UNCHANGED <<instance, frames>>
    ELSE /\ instance' = [instance EXCEPT !.renderQueue = @ + 1]
         /\ frames' = IF instance.isRendering THEN frames ELSE frames + 1

\* the fields of an instance after its constructor: the template has a
\* button bound with on:click="a++" under so many ancestor elements, and
\* one interpolation {expression}
NewInstance(ancestors, expression) ==
    [isDestroyed |-> FALSE, isRendering |-> FALSE, renderQueue |-> 0,
     errorBoundary |-> TRUE, shadowRoot |-> "", lastEventTime |-> 0,
     ancestors |-> ancestors, expression |-> expression,
     clickListeners |-> 0,  \* click listeners on the button and its ancestors
     executed |-> {},       \* expressions run as code by new Function
     mounted |-> FALSE,     \* mount() or connectedCallback() has been called
     clicks |-> 0, clickTurn |-> 0, destroys |-> 0,
     unmounts |-> 0,        \* calls of the onUnmount hook
     raisedRenders |-> 0,   \* renders that raised
     renderDepth |-> 0]     \* compiler.renderDepth

\* what a delivery does to the component: its listener, if registered, runs
notifyRenderListener ==
    IF \E x \in 1 .. Len(listeners) : listeners[x] = RenderListener
    THEN scheduleRender
    ELSE UNCHANGED <<instance, frames>>

\* pushHistory without the shift(): the history grows past its cap
pushHistory_NoShift(h, entry) == Append(h, entry)

\* the history after "if (length >= maxHistorySize) shift(); push(entry)"
pushHistory(h, entry) ==
    Append(IF Len(h) >= maxHistorySize THEN Tail(h) ELSE h, entry)

InitReactive ==
    /\ data = initialState
    /\ listeners = <<>>
    /\ validation = [k \in Keys |-> <<>>]
    /\ middleware = 0
    /\ history = <<>>
    /\ maxHistorySize = HistoryCap
    /\ batchedUpdates = <<>>
    /\ updateScheduled = FALSE
    /\ phase = "sync" /\ turn = 1 /\ mq = <<>>
    /\ calls = <<>> /\ batchCalls = <<>> /\ invocations = <<>>
    /\ updateReplaced = FALSE
    /\ computedFn = "none" /\ computedCache = NoValue /\ dependencies = {}
    /\ dirty = FALSE /\ removed = {}
    /\ log = <<>> /\ returned = [op |-> "none"]

\* ---- configuration, done by the constructing task before any update ----
InSetup == phase = "sync" /\ turn = 1 /\ calls = <<>> /\ batchCalls = <<>>

\* addValidation(property, validator, errorMessage)
AddValidation(k, accepts) ==
    /\ InSetup /\ Len(validation[k]) < 1
    /\ validation' = [validation EXCEPT ![k] = Append(@, accepts)]
    /\ UNCHANGED <<crVars, feVars, opVars, ciVars, data, listeners, middleware, history, maxHistorySize,
                   batchedUpdates, updateScheduled, loopVars>>

\* addMiddleware(middleware), middleware a function
AddMiddleware ==
    /\ InSetup /\ middleware < MaxMiddleware
    /\ middleware' = middleware + 1
    /\ UNCHANGED <<crVars, feVars, opVars, ciVars, data, listeners, validation, history, maxHistorySize,
                   batchedUpdates, updateScheduled, loopVars>>

\* onChange(callback): this.listeners.add(callback); subscribing is the
\* first thing the constructing task does
OnChange ==
    /\ InSetup /\ middleware = 0 /\ \A k \in Keys : validation[k] = <<>>
    /\ \A i \in 1 .. Len(listeners) : listeners[i] # OnChangeListener
    /\ listeners' = Append(listeners, OnChangeListener)
    /\ UNCHANGED <<crVars, feVars, opVars, ciVars, data, validation, middleware, history, maxHistorySize,
                   batchedUpdates, updateScheduled, loopVars>>

\* watch(property, callback): onChange(listener)
Watch(k) ==
    /\ InSetup /\ middleware = 0 /\ \A j \in Keys : validation[j] = <<>>
    /\ \E i \in 1 .. Len(listeners) : listeners[i] = OnChangeListener
    /\ \A i \in 1 .. Len(listeners) : listeners[i] # WatchListener(k)
    /\ listeners' = Append(listeners, WatchListener(k))
    /\ UNCHANGED <<crVars, feVars, opVars, ciVars, data, validation, middleware, history, maxHistorySize,
                   batchedUpdates, updateScheduled, loopVars>>

\* every listener user code registers is registered
Subscribed == Len(listeners) + Cardinality(removed) = 1 + Cardinality(WatchKeys)

\* calls issued so far: update(), updateBatch(), transaction(), undo()
Issued == Len(calls) + Len(batchCalls)
            + Cardinality({i \in 1 .. Len(log) : log[i].op # "update"})

\* the current task called transaction() or undo()
TurnTaken == \E i \in 1 .. Len(log) : log[i].op # "update" /\ log[i].turn = turn

\* the current task issued a call
TurnUsed ==
    \/ \E i \in 1 .. Len(calls) : calls[i].turn = turn
    \/ \E i \in 1 .. Len(batchCalls) : batchCalls[i].turn = turn
    \/ \E i \in 1 .. Len(log) : log[i].op # "update" /\ log[i].turn = turn
    \/ instance.clickTurn = turn

\* a completed update(), as logged: before is data[k] when the call was made
Completed(k, v, before) ==
    [op |-> "update", property |-> k, value |-> v, before |-> before]

\* ---- update(): the async frame of one call ----
Call(k, v, old, t) ==
    [property |-> k, value |-> v, oldValue |-> old, turn |-> t,
     stage |-> 0, status |-> "rejected", flush |-> 0]

StageOutcomes == {"pass", "transform", "throw", "defer"}
SettleOutcomes == {"pass", "transform", "reject"}

\* applyMiddleware with a catch that swallows the error: update() goes on to
\* write after a stage raised
applyMiddleware_Swallow(c, id, o) ==
    IF c.stage >= middleware
    THEN [call |-> [c EXCEPT !.status = "cont"], queued |-> <<Task("cont", id, <<>>)>>]
    ELSE CASE o \in {"pass", "transform"} ->
                [call |-> [c EXCEPT !.stage = @ + 1, !.status = "run",
                                    !.value = IF o = "pass" THEN @ ELSE Transform(@)],
                 queued |-> <<Task("resume", id, <<>>)>>]
           [] o = "throw" ->
                [call |-> [c EXCEPT !.stage = @ + 1, !.status = "rejected"],
                 queued |-> <<Task("resume", id, <<>>)>>]
           [] OTHER ->
                [call |-> [c EXCEPT !.stage = @ + 1, !.status = "wait"],
                 queued |-> <<>>]

\* applyMiddleware, from the top of one loop iteration: with a stage left it
\* calls "await middleware(...)", whose outcome o is the stage's choice;
\* with none left it returns and update()'s own await is resumed one
\* microtask later.  Yields the frame and the microtasks queued.
applyMiddleware(c, id, o) ==
    IF c.stage >= middleware
    THEN [call |-> [c EXCEPT !.status = "cont"], queued |-> <<Task("cont", id, <<>>)>>]
    ELSE CASE o = "pass" ->
                [call |-> [c EXCEPT !.stage = @ + 1, !.status = "run"],
                 queued |-> <<Task("resume", id, <<>>)>>]
           [] o = "transform" ->
                [call |-> [c EXCEPT !.stage = @ + 1, !.status = "run",
                                    !.value = Transform(@)],
                 queued |-> <<Task("resume", id, <<>>)>>]
           [] o = "throw" ->
                [call |-> [c EXCEPT !.stage = @ + 1, !.status = "rejected"],
                 queued |-> <<>>]
           [] OTHER ->
                [call |-> [c EXCEPT !.stage = @ + 1, !.status = "wait"],
                 queued |-> <<>>]

\* update(property, value), up to its first await
\* update(property, value) while this.update is the closure a transaction
\* installed: "updates.push(...); this.data[property] = value"
capturedUpdate(k, v) ==
    /\ calls' = Append(calls, [Call(k, v, data[k], turn) EXCEPT !.status = "captured"])
    /\ data' = [data EXCEPT ![k] = v]
    /\ dirty' = (dirty \/ Stales(k, data[k], v))
    /\ log' = Append(log, Completed(k, v, data[k]))
    /\ returned' = [op |-> "update", raised |-> FALSE]
    /\ UNCHANGED <<mq, listeners, validation, middleware, history, maxHistorySize,
                   batchedUpdates, updateScheduled, updateReplaced, computedFn,
                   computedCache, dependencies, removed>>

\* update(property, value), up to its first await
update(k, v) ==
    /\ IF updateReplaced
       THEN capturedUpdate(k, v)
       ELSE /\ LET id == Len(calls) + 1
                   c == Call(k, v, data[k], turn)
               IN  IF ~validateProperty(k, v)
                   THEN /\ calls' = Append(calls, c)
                        /\ mq' = mq
                   ELSE \E o \in StageOutcomes :
                          LET r == applyMiddleware(c, id, o)
                          IN  /\ calls' = Append(calls, r.call)
                              /\ mq' = mq \o r.queued
            /\ UNCHANGED <<rsVars, opVars>>
    /\ UNCHANGED <<batchCalls, invocations>>

\* user code calls update(property, value)
CallUpdate(k, v) ==
    /\ phase = "sync" /\ Subscribed /\ Issued < MaxCalls /\ ~TurnTaken
    /\ update(k, v)
    /\ UNCHANGED <<crVars, feVars, ciVars, phase, turn>>

\* a frame is resumed after "await middleware(...)": next loop iteration
RunResume ==
    /\ phase = "micro" /\ mq # <<>> /\ Head(mq).kind = "resume"
    /\ LET id == Head(mq).id
       IN  \E o \in StageOutcomes :
             LET r == applyMiddleware(calls[id], id, o)
             IN  /\ calls' = [calls EXCEPT ![id] = r.call]
                 /\ mq' = Tail(mq) \o r.queued
    /\ UNCHANGED <<crVars, feVars, opVars, ciVars, rsVars, phase, turn, batchCalls, invocations>>

\* a promise a stage returned is settled, by a task of its own
Settle(id, o) ==
    /\ id \in 1 .. Len(calls) /\ calls[id].status = "wait"
    /\ phase = "micro" /\ mq = <<>>
    /\ IF o = "reject"
       THEN /\ calls' = [calls EXCEPT ![id].status = "rejected"]
            /\ mq' = mq
       ELSE /\ calls' = [calls EXCEPT ![id].status = "run",
                                      ![id].value = IF o = "transform"
                                                    THEN Transform(@) ELSE @]
            /\ mq' = Append(mq, Task("resume", id, <<>>))
    /\ UNCHANGED <<crVars, feVars, opVars, ciVars, rsVars, phase, turn, batchCalls, invocations>>

\* update() after "await this.applyMiddleware(...)": history, data, batch,
\* scheduleUpdate()
RunCont ==
    /\ phase = "micro" /\ mq # <<>> /\ Head(mq).kind = "cont"
    /\ LET id == Head(mq).id
           c == calls[id]
       IN  /\ history' = pushHistory(history,
                            [property |-> c.property, oldValue |-> c.oldValue,
                             newValue |-> c.value, id |-> id])
           /\ data' = [data EXCEPT ![c.property] = c.value]
           /\ batchedUpdates' = Append(batchedUpdates,
                                       Change(c.property, c.value, c.oldValue, id))
           /\ updateScheduled' = TRUE
           /\ mq' = IF updateScheduled THEN Tail(mq)
                    ELSE Append(Tail(mq), Task("flush", 0, <<>>))
           /\ calls' = [calls EXCEPT ![id].status = "written"]
           /\ dirty' = (dirty \/ Stales(c.property, data[c.property], c.value))
           /\ log' = Append(log, Completed(c.property, c.value, c.oldValue))
    /\ UNCHANGED <<crVars, feVars, ciVars, listeners, validation, middleware, maxHistorySize,
                   phase, turn, batchCalls, invocations, updateReplaced, computedFn,
                   computedCache, dependencies, removed, returned>>

\* invalidateComputedProperties(p) for every p of changed: the cache entry
\* goes when a recorded dependency is among them
invalidateComputedProperties(changed) ==
    IF dependencies \cap changed # {} THEN NoValue ELSE computedCache

\* number of the flush that delivers next
flushNumber == 1 + SeqMax([i \in 1 .. Len(calls) |-> calls[i].flush])

\* flushUpdates(): nothing with an empty batch; else the batch is taken,
\* the flag reset, the listeners called and the computed caches invalidated
flushUpdates ==
    /\ IF batchedUpdates = <<>>
       THEN UNCHANGED <<batchedUpdates, updateScheduled, invocations, calls,
                        computedCache>>
       ELSE LET updates == batchedUpdates
                n == flushNumber
            IN  /\ batchedUpdates' = <<>>
                /\ updateScheduled' = FALSE
                /\ invocations' = invocations \o notifyAll("flush", n, updates, data)
                /\ calls' = [i \in 1 .. Len(calls) |->
                               IF \E j \in 1 .. Len(updates) : updates[j].id = i
                               THEN [calls[i] EXCEPT !.flush = n] ELSE calls[i]]
                \* (a plain value that replaced the accessor is kept here too)
                /\ computedCache' =
                      IF computedFn = "plain" THEN computedCache
                      ELSE invalidateComputedProperties({updates[j].property :
                                                           j \in 1 .. Len(updates)})
    /\ IF batchedUpdates # <<>> THEN notifyRenderListener
       ELSE UNCHANGED <<instance, frames>>

\* flushUpdates(), run by the microtask scheduleUpdate() queued
RunFlush ==
    /\ phase = "micro" /\ mq # <<>> /\ Head(mq).kind = "flush"
    /\ mq' = Tail(mq)
    /\ flushUpdates
    /\ UNCHANGED <<crVars, feVars, options, clock, dispatch, registry, data, listeners,
                   validation, middleware, history,
                   maxHistorySize, phase, turn, batchCalls, updateReplaced, computedFn,
                   dependencies, dirty, removed, log, returned>>

\* the loop of updateBatch without "if (oldValue !== value)"
RECURSIVE batchLoop_NoSkip(_, _, _)
batchLoop_NoSkip(entries, d, changed) ==
    IF entries = <<>> THEN [data |-> d, changedProperties |-> changed]
    ELSE LET k == Head(entries)[1]
             v == Head(entries)[2]
         IN  batchLoop_NoSkip(Tail(entries), [d EXCEPT ![k] = v],
                              Append(changed, Change(k, v, d[k], 0)))

\* updateBatch(updates): the loop over Object.entries(updates)
RECURSIVE batchLoop(_, _, _)
batchLoop(entries, d, changed) ==
    IF entries = <<>> THEN [data |-> d, changedProperties |-> changed]
    ELSE LET k == Head(entries)[1]
             v == Head(entries)[2]
         IN  IF d[k] # v
             THEN batchLoop(Tail(entries), [d EXCEPT ![k] = v],
                            Append(changed, Change(k, v, d[k], 0)))
             ELSE batchLoop(Tail(entries), d, changed)

\* the objects passed to updateBatch: their own keys in insertion order,
\* "a" before "b"
BatchInputs ==
    {s \in UNION {[1 .. n -> Keys \X Values] : n \in 0 .. Cardinality(Keys)} :
        \A i, j \in 1 .. Len(s) : i < j => s[i][1] = "a" /\ s[j][1] = "b"}

\* updateBatch(updates), then notifyListeners(changedProperties)
CallUpdateBatch(updates) ==
    /\ phase = "sync" /\ Subscribed /\ Issued < MaxCalls
    /\ Len(batchCalls) < MaxBatchCalls
    /\ LET r == batchLoop(updates, data, <<>>)
           id == Len(batchCalls) + 1
       IN  /\ data' = r.data
           /\ mq' = IF Len(r.changedProperties) > 0
                    THEN Append(mq, Task("notify", id, r.changedProperties))
                    ELSE mq
           /\ batchCalls' = Append(batchCalls,
                                   [turn |-> turn, updates |-> updates, before |-> data])
    /\ UNCHANGED <<crVars, feVars, opVars, ciVars, listeners, validation, middleware, history, maxHistorySize,
                   batchedUpdates, updateScheduled, phase, turn, calls, invocations>>

\* the microtask notifyListeners() queued: every listener, once
RunNotify ==
    /\ phase = "micro" /\ mq # <<>> /\ Head(mq).kind = "notify"
    /\ mq' = Tail(mq)
    /\ invocations' = invocations \o
                        notifyAll("batch", Head(mq).id, Head(mq).changes, data)
    /\ notifyRenderListener
    /\ UNCHANGED <<crVars, feVars, opVars, options, clock, dispatch, registry, rsVars,
                   phase, turn, calls, batchCalls>>

\* ---- transaction(updateFn) ----
\* what updateFn does: the update(property, value) calls it makes, in order,
\* and then it returns or raises
TxWrites == UNION {[1 .. n -> Keys \X Values] : n \in 0 .. MaxWrites}

\* data after the calls the replaced update() captured
RECURSIVE capture(_, _)
capture(writes, d) ==
    IF writes = <<>> THEN d
    ELSE capture(Tail(writes), [d EXCEPT ![Head(writes)[1]] = Head(writes)[2]])

\* Object.entries(batchUpdate): each captured key once, in the order of its
\* first write, with the value of its last write
RECURSIVE batchUpdate(_, _)
batchUpdate(writes, entries) ==
    IF writes = <<>> THEN entries
    ELSE LET k == Head(writes)[1]
             v == Head(writes)[2]
         IN  IF \E i \in 1 .. Len(entries) : entries[i][1] = k
             THEN batchUpdate(Tail(writes),
                              [i \in 1 .. Len(entries) |->
                                 IF entries[i][1] = k THEN <<k, v>> ELSE entries[i]])
             ELSE batchUpdate(Tail(writes), Append(entries, <<k, v>>))

\* the catch block of transaction() without "this.data = originalData"
rollback_Keep(d, originalData) == d

\* the catch block of transaction(): this.data = originalData
rollback(d, originalData) == originalData

\* the accessor computed() defined, read once: what it returns, what is
\* cached and recorded afterwards (the get trap of the proxy records the
\* keys read while currentComputed is set)
readComputed ==
    IF computedCache # NoValue \/ computedFn = "plain"
    THEN [value |-> computedCache, cache |-> computedCache,
          deps |-> dependencies, fresh |-> FALSE]
    ELSE [value |-> computeFn(data), cache |-> computeFn(data),
          deps |-> IF computedFn = "proxy" THEN dependencies \cup computeReads
                   ELSE dependencies,
          fresh |-> TRUE]

\* transaction(updateFn): _cloneDeep(this.data) reads every enumerable
\* property, the accessor of a computed property included; update is
\* replaced, updateFn runs, and then either update is restored and
\* updateBatch() applies the captured writes, or the error is caught, data
\* becomes the clone (in which a computed property is a plain value) and
\* the error is raised again
Transaction(writes, raises) ==
    /\ phase = "sync" /\ Subscribed /\ Issued < MaxOps /\ ~TurnUsed
    /\ LET clone == IF computedFn = "none" THEN [cache |-> computedCache,
                                                 deps |-> dependencies, fresh |-> FALSE]
                    ELSE readComputed
           written == capture(writes, data)
           r == batchLoop(batchUpdate(writes, <<>>), written, <<>>)
           id == Len(log) + 1
       IN  /\ computedCache' = clone.cache
           /\ dependencies' = clone.deps
           /\ dirty' = IF clone.fresh THEN FALSE ELSE dirty
           /\ log' = Append(log, [op |-> "transaction", turn |-> turn, raised |-> raises,
                                  before |-> data, wrote |-> writes # <<>>,
                                  changed |-> {k \in Keys : written[k] # data[k]}])
           /\ returned' = [op |-> "transaction", raised |-> raises]
           /\ IF raises
              THEN /\ data' = rollback(written, data)
                   /\ updateReplaced' = TRUE
                   /\ computedFn' = IF computedFn = "none" THEN "none" ELSE "plain"
                   /\ mq' = mq
              ELSE /\ data' = r.data
                   /\ updateReplaced' = updateReplaced
                   /\ computedFn' = computedFn
                   /\ mq' = IF Len(r.changedProperties) > 0
                            THEN Append(mq, Task("notify", 0 - id, r.changedProperties))
                            ELSE mq
    /\ UNCHANGED <<crVars, feVars, ciVars, listeners, validation, middleware, history,
                   maxHistorySize, batchedUpdates, updateScheduled, phase, turn,
                   calls, batchCalls, invocations, removed>>

\* ---- undo() ----
Undo ==
    /\ phase = "sync" /\ Subscribed /\ Issued < MaxOps /\ ~TurnUsed
    /\ IF history = <<>>
       THEN /\ returned' = [op |-> "undo", value |-> FALSE]
            /\ log' = Append(log, [op |-> "undo", turn |-> turn, value |-> FALSE])
            /\ UNCHANGED <<history, data, mq>>
       ELSE LET lastChange == history[Len(history)]
            IN  /\ history' = SubSeq(history, 1, Len(history) - 1)
                /\ data' = [data EXCEPT ![lastChange.property] = lastChange.oldValue]
                /\ mq' = Append(mq, Task("notify", 0 - (Len(log) + 1),
                                         <<Change(lastChange.property, lastChange.oldValue,
                                                  lastChange.newValue, 0)>>))
                /\ returned' = [op |-> "undo", value |-> TRUE]
                /\ log' = Append(log, [op |-> "undo", turn |-> turn, value |-> TRUE])
    /\ UNCHANGED <<crVars, feVars, ciVars, listeners, validation, middleware, maxHistorySize,
                   batchedUpdates, updateScheduled, phase, turn, calls, batchCalls,
                   invocations, updateReplaced, computedFn, computedCache,
                   dependencies, dirty, removed>>

\* ---- computed(name, computeFn) ----
ComputedStyles == {"data", "proxy"}

\* computed("sum", fn): defines the accessor on this.data, in the setup task
Computed(style) ==
    /\ InSetup /\ Subscribed /\ removed = {} /\ log = <<>>
    /\ computedFn = "none" /\ returned.op = "none"
    /\ computedFn' = style
    /\ UNCHANGED <<crVars, feVars, ciVars, rsVars, loopVars, updateReplaced, computedCache,
                   dependencies, dirty, removed, log, returned>>

\* user code reads data.sum
ReadComputed ==
    /\ phase = "sync" /\ computedFn # "none"
    /\ LET r == readComputed
       IN  /\ computedCache' = r.cache
           /\ dependencies' = r.deps
           /\ dirty' = IF r.fresh THEN FALSE ELSE dirty
           /\ returned' = [op |-> "read", value |-> r.value,
                           now |-> computeFn(data), dirty |-> dirty,
                           fn |-> computedFn]
    /\ UNCHANGED <<crVars, feVars, ciVars, rsVars, loopVars, updateReplaced, computedFn,
                   removed, log>>

\* ---- the function onChange() returned ----
\* this.listeners.delete(callback), without the delete
unsubscribe_Keep(ls, l) == ls

\* this.listeners.delete(callback)
unsubscribe(ls, l) == SelectSeq(ls, LAMBDA x : x # l)

Unsubscribe(l) ==
    /\ phase = "sync" /\ Subscribed /\ l \notin removed
    /\ \E i \in 1 .. Len(listeners) : listeners[i] = l
    /\ listeners' = unsubscribe(listeners, l)
    /\ removed' = removed \cup {l}
    /\ returned' = [op |-> "unsubscribe", listener |-> l,
                    scheduled |-> Len(SelectSeq(mq, LAMBDA t :
                                                  t.kind \in {"notify", "flush"}))]
    /\ UNCHANGED <<crVars, feVars, ciVars, data, validation, middleware, history,
                   maxHistorySize, batchedUpdates, updateScheduled, loopVars,
                   updateReplaced, computedFn, computedCache, dependencies, dirty,
                   log>>

\* the task's synchronous code returns: the microtask checkpoint begins
EndSync ==
    /\ phase = "sync" /\ (turn = 1 \/ TurnUsed)
    /\ phase' = "micro"
    /\ UNCHANGED <<crVars, feVars, opVars, ciVars, rsVars, turn, mq, calls, batchCalls, invocations>>

\* the queue is empty: the next task that uses the instance starts
BeginTurn(limit) ==
    /\ phase = "micro" /\ mq = <<>>
    /\ Issued < limit
    /\ phase' = "sync" /\ turn' = turn + 1
    /\ UNCHANGED <<crVars, feVars, opVars, ciVars, rsVars, mq, calls, batchCalls, invocations>>

FrontendIdle ==
    /\ content = <<>> /\ position = 0 /\ tokens = <<>> /\ current = 0
    /\ component = NewComponent /\ result = Null /\ pc = "idle"

\* no component instance has been constructed, nothing is registered
\* new ComponentRegistry(), no render() running
EmptyRegistry ==
    /\ renderStack = <<>>
    /\ components = <<>> /\ instances = {} /\ componentCount = 0
    /\ objects = <<>>

NoInstance ==
    /\ EmptyRegistry
    /\ options = [strictMode |-> TRUE, allowUnsafeEval |-> FALSE, maxRenderDepth |-> 100]
    /\ instance = NewInstance(0, "a")
    /\ clock = 0 /\ frames = 0 /\ dispatch = 0
    /\ registry = [components |-> {}, componentsRegistered |-> 0, errors |-> 0]

Init == InitReactive /\ FrontendIdle /\ NoInstance

Next ==
    \/ \E k \in ValidatedKeys, accepts \in Validators : AddValidation(k, accepts)
    \/ AddMiddleware
    \/ OnChange
    \/ \E k \in WatchKeys : Watch(k)
    \/ \E k \in Keys, v \in Values : CallUpdate(k, v)
    \/ \E updates \in BatchInputs : CallUpdateBatch(updates)
    \/ RunResume
    \/ \E id \in 1 .. MaxCalls, o \in SettleOutcomes : Settle(id, o)
    \/ RunCont
    \/ RunFlush
    \/ RunNotify
    \/ EndSync
    \/ BeginTurn(MaxCalls)

Spec == Init /\ [][Next]_vars

(* The same instance with no validator and no middleware, under            *)
(* transactions and undo.                                                  *)
NextTransaction ==
    \/ OnChange
    \/ \E k \in WatchKeys : Watch(k)
    \/ \E k \in Keys, v \in Values : CallUpdate(k, v)
    \/ \E writes \in TxWrites, raises \in BOOLEAN : Transaction(writes, raises)
    \/ Undo
    \/ RunCont
    \/ RunFlush
    \/ RunNotify
    \/ EndSync
    \/ BeginTurn(MaxOps)

SpecTransaction == Init /\ [][NextTransaction]_vars

(* ... with a computed property that user code reads.                      *)
NextComputed ==
    \/ OnChange
    \/ \E k \in WatchKeys : Watch(k)
    \/ \E style \in ComputedStyles : Computed(style)
    \/ \E k \in Keys, v \in Values : CallUpdate(k, v)
    \/ ReadComputed
    \/ RunCont
    \/ RunFlush
    \/ EndSync
    \/ BeginTurn(MaxOps)

SpecComputed == Init /\ [][NextComputed]_vars

(* ... with listeners that unsubscribe.                                    *)
NextSubscription ==
    \/ OnChange
    \/ \E k \in WatchKeys : Watch(k)
    \/ \E k \in Keys, v \in Values : CallUpdate(k, v)
    \/ \E updates \in BatchInputs : CallUpdateBatch(updates)
    \/ \E l \in {OnChangeListener} \cup {WatchListener(k) : k \in WatchKeys} :
          Unsubscribe(l)
    \/ RunCont
    \/ RunFlush
    \/ RunNotify
    \/ EndSync
    \/ BeginTurn(MaxCalls)

SpecSubscription == Init /\ [][NextSubscription]_vars

(***************************************************************************)
(* One instance of the class generateComponentClass() builds, with its     *)
(* ReactiveState, on the event loop: mounting, clicks on the bound button, *)
(* animation frames, destroy().  Date.now() advances while the time since  *)
(* the last handled event can still matter.                                *)
(***************************************************************************)
MaxAncestors == 1       \* ancestor elements of the button in the template
MaxClicks == 1          \* clicks on the button
MaxDestroys == 2        \* destroy() calls

\* handleEvent: "(Date.now() - this.lastEventTime) < 16"
ThrottleMs == 16
\* ReactiveState.maxHistorySize
DefaultHistorySize == 50

\* createSecureCompiler(), createDevelopmentCompiler(),
\* new EZUICompiler({maxRenderDepth: 0})
Configurations ==
    {[strictMode |-> TRUE, allowUnsafeEval |-> FALSE, maxRenderDepth |-> 100],
     [strictMode |-> FALSE, allowUnsafeEval |-> TRUE, maxRenderDepth |-> 1000],
     [strictMode |-> TRUE, allowUnsafeEval |-> FALSE, maxRenderDepth |-> 0]}

\* the interpolation of the template
Expressions == {"a", "window"}

\* validateExpression: the identifiers its patterns match
dangerousPatterns ==
    {"constructor", "prototype", "window", "document", "global", "process",
     "require", "import", "fetch", "XMLHttpRequest", "setTimeout", "setInterval"}

\* validateExpression(expression) returns (it raises otherwise)
validateExpression(e) == e \notin dangerousPatterns

\* safeEval(expression, context): validates in strictMode only, then runs
\* the expression with new Function
safeEval(e) ==
    IF options.strictMode /\ ~validateExpression(e) THEN "rejected" ELSE "executed"

\* evaluateExpression(expression): property lookup unless allowUnsafeEval
evaluateExpression(e) ==
    IF ~options.allowUnsafeEval THEN "lookup" ELSE safeEval(e)

\* render() raises "Maximum render depth exceeded"
renderRaises == instance.renderDepth >= options.maxRenderDepth

\* attachEventListeners(): one more listener on every element whose tag is
\* in the template, the button and each of its ancestors
attachEventListeners(i) == [i EXCEPT !.clickListeners = @ + 1 + i.ancestors]

\* render(), not raising: the interpolation is evaluated, updateDOM()
\* replaces the elements, attachEventListeners()
render(i) ==
    attachEventListeners(
      [i EXCEPT !.shadowRoot = "rendered", !.clickListeners = 0,
                !.executed = IF evaluateExpression(i.expression) = "executed"
                             THEN @ \cup {i.expression} ELSE @])

\* handleComponentError(error): the error boundary, when there is one,
\* replaces the shadow DOM with the notice
handleComponentError(i) ==
    IF i.errorBoundary THEN [i EXCEPT !.shadowRoot = "notice", !.clickListeners = 0]
    ELSE i

\* mount(), render() not raising: render(), attachEventListeners(), onMount()
mount(i) == [attachEventListeners(render(i)) EXCEPT !.mounted = TRUE]

InitComponent ==
    /\ data = initialState
    /\ listeners = <<RenderListener>>
    /\ validation = [k \in Keys |-> <<>>]
    /\ middleware = 0
    /\ history = <<>>
    /\ maxHistorySize = DefaultHistorySize
    /\ batchedUpdates = <<>>
    /\ updateScheduled = FALSE
    /\ phase = "sync" /\ turn = 1 /\ mq = <<>>
    /\ calls = <<>> /\ batchCalls = <<>> /\ invocations = <<>>
    /\ updateReplaced = FALSE
    /\ computedFn = "none" /\ computedCache = NoValue /\ dependencies = {}
    /\ dirty = FALSE /\ removed = {}
    /\ log = <<>> /\ returned = [op |-> "none"]
    /\ FrontendIdle
    /\ options \in Configurations
    /\ \E n \in 0 .. MaxAncestors, e \in Expressions : instance = NewInstance(n, e)
    /\ clock = ThrottleMs /\ frames = 0 /\ dispatch = 0
    /\ registry = [components |-> {}, componentsRegistered |-> 0, errors |-> 0]
    /\ EmptyRegistry

\* the instance is mounted: by mount(), as EZUI.mountComponent() does, or
\* by connectedCallback(), which mounts inside a try and hands an error to
\* handleComponentError
Mount(via) ==
    /\ phase = "sync" /\ turn = 1 /\ ~instance.mounted
    /\ IF via = "connectedCallback" /\ (instance.shadowRoot # "" \/ instance.isDestroyed)
       THEN /\ instance' = [instance EXCEPT !.mounted = TRUE]
            /\ returned' = [op |-> via, raised |-> FALSE]
       ELSE IF renderRaises
       THEN LET i == [instance EXCEPT !.mounted = TRUE, !.raisedRenders = @ + 1]
            IN  IF via = "connectedCallback"
                THEN /\ instance' = handleComponentError(i)
                     /\ returned' = [op |-> via, raised |-> FALSE]
                ELSE /\ instance' = i
                     /\ returned' = [op |-> via, raised |-> TRUE]
       ELSE /\ instance' = mount(instance)
            /\ returned' = [op |-> via, raised |-> FALSE]
    /\ UNCHANGED <<crVars, feVars, rsVars, loopVars, updateReplaced, computedFn, computedCache,
                   dependencies, dirty, removed, log, options, clock, frames,
                   dispatch, registry>>

\* the guard of safeRender() without the test of isDestroyed
safeRenderSkips_RenderingOnly(i) == i.isRendering

\* safeRender(): "if (this.isDestroyed || this.isRendering) return"
safeRenderSkips(i) == i.isDestroyed \/ i.isRendering

\* the animation frame scheduleRender() asked for: safeRender()
RunFrame ==
    /\ frames > 0 /\ phase = "micro" /\ mq = <<>> /\ dispatch = 0
    /\ frames' = frames - 1
    /\ returned' = [op |-> "safeRender", raised |-> FALSE]
    /\ instance' =
         IF safeRenderSkips(instance) THEN instance
         ELSE IF renderRaises
         THEN [handleComponentError([instance EXCEPT !.raisedRenders = @ + 1])
                 EXCEPT !.renderQueue = 0]
         ELSE [render(instance) EXCEPT !.renderQueue = 0]
    /\ UNCHANGED <<crVars, feVars, rsVars, loopVars, updateReplaced, computedFn, computedCache,
                   dependencies, dirty, removed, log, options, clock, dispatch,
                   registry>>

\* the user clicks the button: a task that calls the click listeners of
\* the button and of its ancestors, one after the other
Click ==
    /\ phase = "micro" /\ mq = <<>> /\ dispatch = 0
    /\ instance.clicks < MaxClicks /\ instance.clickListeners > 0
    /\ dispatch' = instance.clickListeners
    /\ instance' = [instance EXCEPT !.clicks = @ + 1, !.clickTurn = turn + 1]
    /\ phase' = "sync" /\ turn' = turn + 1
    /\ UNCHANGED <<crVars, feVars, rsVars, opVars, mq, calls, batchCalls, invocations,
                   options, clock, frames, registry>>

\* the rate limit of handleEvent, never applied
throttled_Never(i, now) == FALSE

\* handleEvent: "this.lastEventTime && (Date.now() - this.lastEventTime) < 16"
throttled(i, now) == i.lastEventTime # 0 /\ now - i.lastEventTime < ThrottleMs

\* one listener of the click: handleEvent(e, "a++"), up to the first await
\* of the update() it calls; the browser runs the microtasks after each
\* listener, before it calls the next
HandleEvent ==
    /\ dispatch > 0
    /\ \/ phase = "sync" /\ dispatch = instance.clickListeners
       \/ phase = "micro" /\ mq = <<>>
    /\ dispatch' = dispatch - 1
    /\ phase' = "sync"
    /\ IF throttled(instance, clock)
       THEN UNCHANGED <<rsVars, opVars, mq, calls, batchCalls, invocations, instance>>
       ELSE /\ instance' = [instance EXCEPT !.lastEventTime = clock]
            /\ update("a", data["a"] + 1)
    /\ UNCHANGED <<crVars, feVars, turn, options, clock, frames, registry>>

\* Date.now() moves on
Tick ==
    /\ dispatch > 0 \/ instance.clicks < MaxClicks
    /\ instance.lastEventTime # 0
    /\ clock - instance.lastEventTime < ThrottleMs
    /\ clock' = clock + ThrottleMs
    /\ UNCHANGED <<crVars, feVars, rsVars, loopVars, opVars, options, instance, frames,
                   dispatch, registry>>

\* the guard of destroy(), never taken
alreadyDestroyed_Never(i) == FALSE

\* destroy(): "if (this.isDestroyed) return"
alreadyDestroyed(i) == i.isDestroyed

\* destroy(), or disconnectedCallback(), which calls it inside a try:
\* state.destroy(), the shadow DOM is emptied, onUnmount()
Destroy(via) ==
    /\ instance.destroys < MaxDestroys /\ dispatch = 0
    /\ phase = "sync" \/ (phase = "micro" /\ mq = <<>>)
    /\ returned' = [op |-> via, raised |-> FALSE]
    /\ IF alreadyDestroyed(instance)
       THEN /\ instance' = [instance EXCEPT !.destroys = @ + 1]
            /\ UNCHANGED <<listeners, computedCache, dependencies, validation,
                           middleware, history, batchedUpdates, updateScheduled>>
       ELSE /\ instance' = [instance EXCEPT !.isDestroyed = TRUE, !.shadowRoot = "",
                                            !.clickListeners = 0, !.renderQueue = 0,
                                            !.errorBoundary = FALSE,
                                            !.unmounts = @ + 1, !.destroys = @ + 1]
            /\ listeners' = <<>>
            /\ computedCache' = NoValue /\ dependencies' = {}
            /\ validation' = [k \in Keys |-> <<>>]
            /\ middleware' = 0
            /\ history' = <<>>
            /\ batchedUpdates' = <<>>
            /\ updateScheduled' = FALSE
    /\ UNCHANGED <<crVars, feVars, data, maxHistorySize, loopVars, updateReplaced, computedFn,
                   dirty, removed, log, options, clock, frames, dispatch, registry>>

NextComponent ==
    \/ \E via \in {"mount", "connectedCallback"} : Mount(via)
    \/ Click
    \/ HandleEvent
    \/ Tick
    \/ RunCont
    \/ RunFlush
    \/ RunFrame
    \/ \E via \in {"destroy", "disconnectedCallback"} : Destroy(via)
    \/ EndSync

SpecComponent == InitComponent /\ [][NextComponent]_vars

(* The front end as a state machine: parse(content) tokenizes (one          *)
(* scanToken() call per step), runs its top-level loop (one iteration per   *)
(* step) and returns the AST; compile(ast) is one step.                     *)

InitFrontend ==
    /\ InitReactive /\ NoInstance
    /\ position = 0 /\ tokens = <<>> /\ current = 0 /\ result = Null
    /\ \/ /\ pc = "lex"
          /\ component = NewComponent
          /\ \E src \in SourceParts : content = SourceText(src)
       \/ /\ pc = "compile"
          /\ content = <<>>
          /\ component \in DirectASTs

\* tokenize(): one iteration of "while (position < content.length) scanToken()"
ScanToken ==
    /\ pc = "lex" /\ position < Len(content)
    /\ LET L == scanToken(content, position, tokens)
       IN  /\ position' = L.position
           /\ tokens' = L.tokens
           /\ pc' = IF LoopsForever(position, L) THEN "lexHang" ELSE "lex"
    /\ UNCHANGED <<crVars, rsVars, loopVars, opVars, ciVars, content, current, component, result>>

\* tokenize(): the loop is over; push EOF and return to parse()
FinishTokenize ==
    /\ pc = "lex" /\ position >= Len(content)
    /\ tokens' = Append(tokens, EOFToken(content, position))
    /\ pc' = "parse"
    /\ UNCHANGED <<crVars, rsVars, loopVars, opVars, ciVars, content, position, current, component, result>>

\* parse(): one iteration of the top-level loop
ParseStep ==
    /\ pc = "parse" /\ ~pIsAtEnd(tokens, current)
    /\ \E r \in {parseDispatch(tokens, current, component)} :
           /\ current' = r.cur
           /\ component' = IF r.st = "ok" THEN r.val ELSE component
           /\ result' = IF r.st = "ok" THEN result ELSE Str(r.val)
           /\ pc' = CASE r.st = "ok" -> "parse"
                      [] r.st = "throw" -> "parseError"
                      [] OTHER -> "parseHang"
    /\ UNCHANGED <<crVars, rsVars, loopVars, opVars, ciVars, content, position, tokens>>

\* parse(): return component
FinishParse ==
    /\ pc = "parse" /\ pIsAtEnd(tokens, current)
    /\ pc' = "compile"
    /\ UNCHANGED <<crVars, rsVars, loopVars, opVars, ciVars, content, position, tokens, current, component, result>>

Compile ==
    /\ pc = "compile"
    /\ LET r == compile(component)
       IN  /\ result' = r
           /\ pc' = IF r.st = "ok" THEN "compiled" ELSE "compileError"
    /\ UNCHANGED <<crVars, rsVars, loopVars, opVars, ciVars, content, position, tokens, current, component>>

\* the name registerComponent(name, ezuContent) is called with
ComponentName == "my-counter"

\* registerComponent with register() and the counter moved before the
\* parse: they happen whether or not parse and compile raise
registerComponent_Early(reg, name, ok) ==
    [reg EXCEPT !.components = @ \cup {name},
                !.componentsRegistered = @ + 1,
                !.errors = IF ok THEN @ ELSE @ + 1]

\* registerComponent(name, ezuContent) once parse and compile are over:
\* registry.register() and componentsRegistered++ when both returned,
\* handleError() in the catch block when one raised
registerComponent(reg, name, ok) ==
    IF ok
    THEN [reg EXCEPT !.components = @ \cup {name}, !.componentsRegistered = @ + 1]
    ELSE [reg EXCEPT !.errors = @ + 1]

\* registerComponent(): the end of the try block, or the catch block
FinishRegister ==
    /\ pc \in {"parseError", "compileError", "compiled"} /\ content # <<>>
    /\ registry' = registerComponent(registry, ComponentName, pc = "compiled")
    /\ pc' = IF pc = "compiled" THEN "registered" ELSE "registerError"
    /\ UNCHANGED <<crVars, rsVars, loopVars, opVars, options, instance, clock, frames, dispatch,
                   content, position, tokens, current, component, result>>

NextFrontend ==
    \/ ScanToken
    \/ FinishTokenize
    \/ ParseStep
    \/ FinishParse
    \/ Compile
    \/ FinishRegister

SpecFrontend == InitFrontend /\ [][NextFrontend]_vars

--------------------------------------------------------------------------
(* Claims about the front end, stated over SpecFrontend.                    *)

\* the source the run started from is one of the complete components
CompleteSource(src) ==
    /\ content = SourceText(src)
    /\ src.header.closed /\ src.style.present /\ src.state.present
    /\ src.template.present /\ src.tail = <<>>

\* the source the run started from is a header followed by any of the blocks
ValidSource(src) ==
    /\ content = SourceText(src)
    /\ src.header.closed /\ src.tail = <<>>

\* C1: for every input, tokenize terminates without raising and returns a
\* non-empty token list whose last token is EOF, also for inputs that contain
\* '<component' with no later space or '>'.
C1_TokenizeReturnsEOF ==
    /\ pc # "lexHang"
    /\ pc \in {"parse", "parseError", "parseHang"} =>
          /\ tokens # <<>>
          /\ tokens[Len(tokens)].type = "EOF"

\* C2: parse of a '<component Name.ezu>' header followed by style, state and
\* template blocks returns an AST of type Component whose name is the header
\* name, whose style and template are non-null and whose state map holds every
\* declared key with its parsed value.
C2_ParseCompleteComponent ==
    \A src \in SourceParts :
        (CompleteSource(src) /\ pc \notin {"lex", "parse"}) =>
            /\ pc \notin {"lexHang", "parseError", "parseHang"}
            /\ component.type = "Component"
            /\ SameValue(component.name, src.header.name)
            /\ Truthy(component.style)
            /\ Truthy(component.template)
            /\ SameValue(component.state, Obj(src.state.keys))

\* C3: for every valid source, parse followed by compile returns a component
\* definition (nothing is raised) whose instances have exactly the top-level
\* keys of the state block as state keys.
C3_ParseThenCompile ==
    \A src \in SourceParts :
        (ValidSource(src) /\ pc \notin {"lex", "parse", "compile"}) =>
            /\ pc = "compiled"
            /\ InstanceStateKeys(result.val) = DOMAIN src.state.keys

\* C4: compile(ast) raises exactly when the AST has no name, or a present
\* template has empty markup, or a state or props key at any depth fails
\* identifier syntax, or a style rule value is not an object; for every other
\* AST it returns a component definition.
C4_CompileRaisesExactlyWhen ==
    pc \in {"compiled", "compileError"} =>
        (pc = "compileError" <=>
            \/ ~Truthy(component.name)
            \/ Truthy(component.template) /\ component.template.html = <<>>
            \/ Truthy(component.state) /\ ~validateStateObject(component.state.v)
            \/ Truthy(component.props) /\ ~validateStateObject(component.props.v)
            \/ Truthy(component.style) /\ ~validateStyleObject(component.style.v))

--------------------------------------------------------------------------
(* Claims about ReactiveState, stated over Spec.                            *)

\* the ids a sequence of entries carries
Ids(s) == {s[i].id : i \in 1 .. Len(s)}

\* the invocations of listener l that deliver notification (src, n)
Delivered(l, src, n) ==
    SelectSeq(invocations, LAMBDA v : v.src = src /\ v.n = n /\ v.listener = l)

C6_SameTurnOneNotification ==
    \A i \in 1 .. Len(calls) :
        calls[i].flush # 0 =>
            \A l \in 1 .. Len(listeners) :
                LET invs == Delivered(listeners[l], "flush", calls[i].flush)
                IN  /\ Len(invs) = 1
                    /\ \A j \in 1 .. Len(calls) :
                          (calls[j].turn = calls[i].turn /\ calls[j].status = "written")
                             => j \in Ids(invs[1].changes)

\* C7: when several updates of one key end up in the same flush, the value
\* delivered for the key is the last one written: the data the listeners see
\* holds it, and a watch(key, callback) callback gets it as newValue.
C7_LastWriteWins ==
    \A x \in 1 .. Len(invocations) :
        LET inv == invocations[x]
            ch == inv.changes
        IN  inv.src = "flush" =>
              \A k \in Keys :
                 find(ch, k) # 0 =>
                    LET last == CHOOSE i \in 1 .. Len(ch) :
                                  /\ ch[i].property = k
                                  /\ \A j \in i + 1 .. Len(ch) : ch[j].property # k
                    IN  /\ inv.state[k] = ch[last].value
                        /\ inv.listener = WatchListener(k) =>
                              watchListener(k, ch).newValue = ch[last].value

\* C8: every update that succeeds appends exactly one history entry, and the
\* entries stand in the history in the order the update calls were issued,
\* also when middleware stages resolve asynchronously.
C8_HistoryInCallOrder ==
    [][/\ \A id \in 1 .. Len(calls') :
             calls'[id].status = "written" =>
                /\ Cardinality({x \in 1 .. Len(history') : history'[x].id = id}) <= 1
                /\ id \in Ids(history') \/ Len(history') = maxHistorySize'
       /\ \A x, y \in 1 .. Len(history') : x < y => history'[x].id < history'[y].id
       /\ (history' # history /\ history # <<>>) =>
             history'[Len(history')].id > history[Len(history)].id]_vars

ChangedSubset(b) ==
    LET differs == SelectSeq(b.updates, LAMBDA e : b.before[e[1]] # e[2])
    IN  [i \in 1 .. Len(differs) |->
            Change(differs[i][1], differs[i][2], b.before[differs[i][1]], 0)]

\* C10: updateBatch(map) writes every key of map into data before it returns
\* and causes exactly one invocation of each listener, whose change list has
\* one entry for exactly the keys whose value changed; no listener is invoked
\* when no key changed.
C10_UpdateBatchNotifiesOnce ==
    [][/\ Len(batchCalls') > Len(batchCalls) =>
             LET b == batchCalls'[Len(batchCalls')]
             IN  \A i \in 1 .. Len(b.updates) : data'[b.updates[i][1]] = b.updates[i][2]
       /\ \A n \in 1 .. Len(batchCalls') :
             LET owed == ChangedSubset(batchCalls'[n])
                 pending == \E i \in 1 .. Len(mq') :
                               mq'[i].kind = "notify" /\ mq'[i].id = n
             IN  \A l \in 1 .. Len(listeners') :
                    LET invs == SelectSeq(invocations',
                                   LAMBDA v : v.src = "batch" /\ v.n = n
                                              /\ v.listener = listeners'[l])
                    IN  IF owed = <<>> THEN ~pending /\ invs = <<>>
                        ELSE IF pending THEN invs = <<>>
                        ELSE Len(invs) = 1 /\ invs[1].changes = owed]_vars

\* an updateBatch of two keys, one of them unchanged, has been delivered
C10_Witness ==
    \E n \in 1 .. Len(batchCalls) :
        /\ Len(batchCalls[n].updates) = 2
        /\ Len(ChangedSubset(batchCalls[n])) = 1
        /\ \A l \in 1 .. Len(listeners) : Len(Delivered(listeners[l], "batch", n)) = 1
        /\ Len(listeners) >= 1


--------------------------------------------------------------------------
(* Claims about transactions, undo, computed properties and unsubscribing. *)

\* the step is a call of op: it appended the call to the log
Logged(op) ==
    /\ Len(log') = Len(log) + 1
    /\ log'[Len(log')].op = op

\* C11: when the function given to transaction() writes one or more keys and
\* then raises, every key of data has afterwards the value it had before
\* the transaction started, and the error is re-raised to the caller.
C11_FailedTransactionRollsBack ==
    [][(Logged("transaction") /\ log'[Len(log')].raised
                              /\ log'[Len(log')].wrote)
       => (data' = data /\ returned' = [op |-> "transaction", raised |-> TRUE])]_vars

\* a transaction changed a key, raised, and the key has its old value again
C11_Witness ==
    /\ log # <<>>
    /\ log[Len(log)].op = "transaction" /\ log[Len(log)].raised
    /\ log[Len(log)].changed # {}
    /\ data = log[Len(log)].before
    /\ returned = [op |-> "transaction", raised |-> TRUE]

\* the microtasks of the task that made call i of the log have all run
Drained(i) == log[i].turn < turn \/ (phase = "micro" /\ mq = <<>>)

\* the invocations of listener l for call i of the log
NotifiedOf(l, i) ==
    {j \in 1 .. Len(invocations) :
        /\ invocations[j].listener = l
        /\ invocations[j].src = "batch"
        /\ invocations[j].n = 0 - i}

\* C12: when the function given to transaction() returns after writing keys
\* to values other than those they had, the captured writes are applied as
\* one batched update: each listener is notified exactly once, with a change
\* list that contains every key the transaction changed.
C12_TransactionNotifiesOnce ==
    \A i \in 1 .. Len(log) :
      (/\ log[i].op = "transaction" /\ ~log[i].raised
       /\ log[i].changed # {}
       /\ Drained(i))
      => \A x \in 1 .. Len(listeners) :
           /\ Cardinality(NotifiedOf(listeners[x], i)) = 1
           /\ \A j \in NotifiedOf(listeners[x], i) :
                 log[i].changed \subseteq
                   {invocations[j].changes[c].property :
                      c \in 1 .. Len(invocations[j].changes)}

\* C13: after an update(key, v) has completed, undo() returns true, removes
\* the most recent history entry, sets data[key] back to the value it had
\* before that update and notifies the listeners with the one change
\* {property: key, value: old value, oldValue: v}; with an empty history
\* undo() returns false, leaves data and history as they are and notifies
\* nobody.
C13_UndoRevertsLastUpdate ==
    [][Logged("undo") =>
         /\ (log # <<>> /\ log[Len(log)].op = "update") =>
               LET u == log[Len(log)]
               IN  /\ returned' = [op |-> "undo", value |-> TRUE]
                   /\ Len(history) >= 1
                   /\ history' = SubSeq(history, 1, Len(history) - 1)
                   /\ data' = [data EXCEPT ![u.property] = u.before]
                   /\ mq' = Append(mq, Task("notify", 0 - Len(log'),
                                            <<Change(u.property, u.before, u.value, 0)>>))
         /\ (history = <<>> /\ ~(log # <<>> /\ log[Len(log)].op = "update")) =>
               /\ returned' = [op |-> "undo", value |-> FALSE]
               /\ data' = data /\ history' = history /\ mq' = mq]_vars

\* C14: a computed property reflects its dependencies: once it has been read
\* and an update() has then changed a key its function reads, the next read
\* of data[name] returns the function evaluated on the new data, not the
\* cached old value.
C14_ComputedReflectsDependencies ==
    (returned.op = "read" /\ returned.fn \in ComputedStyles /\ returned.dirty)
      => returned.value = returned.now

\* the invocations a step adds
NewInvocations == SubSeq(invocations', Len(invocations) + 1, Len(invocations'))

--------------------------------------------------------------------------
(* Claims about a component instance, stated over SpecComponent.            *)

C17_DenylistedNeverExecuted ==
    \A e \in instance.executed : e \notin dangerousPatterns

\* C18: on a mounted instance whose button is bound with on:click="a++", one
\* click causes exactly one update a -> a + 1: once the click has been
\* handled, a is greater by one and the history longer by one entry, however
\* many listeners mount() and render() attached to the button and its
\* ancestors.
C18_OneClickOneUpdate ==
    (/\ instance.clicks = 1 /\ dispatch = 0
     /\ phase = "micro" /\ mq = <<>>
     /\ ~instance.isDestroyed)
    => /\ Len(calls) = 1
       /\ data["a"] = initialState["a"] + 1
       /\ Len(history) = 1

\* C20: an error raised during a render of an instance, on mount or on a
\* scheduled re-render, never propagates to the caller: it is caught at the
\* render boundary and handed to the error-boundary hook of the instance,
\* which replaces the rendered output with an error notice.
C20_RenderErrorsCaught ==
    [][instance'.raisedRenders > instance.raisedRenders
       => (returned'.raised = FALSE /\ instance'.shadowRoot = "notice")]_vars


--------------------------------------------------------------------------
(* A claim about EZUI.registerComponent, stated over SpecFrontend.          *)

\* C19: when registerComponent fails because parse or compile raises, the
\* call raises and the registry is as it was: no component is registered
\* under the name and componentsRegistered is not incremented.
C19_FailedRegisterLeavesRegistry ==
    [][pc' = "registerError" /\ pc # "registerError"
       => /\ registry'.components = registry.components
          /\ ComponentName \notin registry'.components
          /\ registry'.componentsRegistered = registry.componentsRegistered]_vars

\* registerComponent failed and reported the error
C19_Witness ==
    /\ pc = "registerError" /\ registry.errors = 1
    /\ registry.components = {} /\ registry.componentsRegistered = 0

--------------------------------------------------------------------------
(* Claims about the lexer and the parser, stated over SpecFrontend.         *)

\* tokenize() returned (parse() took the tokens over)
Tokenized == pc \notin {"lex", "lexHang"}

\* parse() is over, one way or another
Parsed == pc \notin {"lex", "lexHang", "parse"}

\* C21: tokenizing a source whose template block contains a '{expr}' span
\* produces an INTERPOLATION token for that span, whose value is the text
\* between the braces.
C21_InterpolationToken ==
    \A src \in SourceParts :
        (content = SourceText(src) /\ Tokenized
            /\ (src.header.closed \/ src.header.text = <<>>)) =>
            \A k \in 1 .. Len(src.template.spans) :
                \E i \in 1 .. Len(tokens) :
                    /\ tokens[i].type = "INTERPOLATION"
                    /\ tokens[i].value = Str(src.template.spans[k])

\* the 0-based offsets at which pat occurs in text
Occurrences(text, pat) ==
    {i \in 0 .. (Len(text) - Len(pat)) : substring(text, i, i + Len(pat)) = pat}

\* C22: parse of a source whose template markup contains k '{expr}' spans
\* returns template.interpolations with exactly k entries in source order;
\* each entry's expression is the trimmed text between the braces and each
\* entry's placeholder occurs verbatim in the template markup stored in the
\* AST.
C22_ParseInterpolations ==
    \A src \in SourceParts :
        (content = SourceText(src) /\ src.header.closed /\ src.tail = <<>>
            /\ src.template.present /\ Parsed) =>
            /\ pc \notin {"parseError", "parseHang"}
            /\ Truthy(component.template)
            /\ Len(component.template.interpolations) = Len(src.template.spans)
            /\ \A k \in 1 .. Len(src.template.spans) :
                  LET e == component.template.interpolations[k]
                  IN  /\ e.expression = trim(src.template.spans[k])
                      /\ Occurrences(component.template.html, e.placeholder) # {}

BlockKeywords ==
    { [keyword |-> <<"s","t","y","l","e">>, type |-> "STYLE_BLOCK"],
      [keyword |-> <<"s","t","a","t","e">>, type |-> "STATE_BLOCK"],
      [keyword |-> <<"t","e","m","p","l","a","t","e">>, type |-> "TEMPLATE_BLOCK"],
      [keyword |-> <<"p","r","o","p","s">>, type |-> "PROPS_BLOCK"] }

\* C28: when the cursor is at a block keyword (style, state, template, props)
\* not followed by an identifier character, the lexer emits one block token
\* and advances past the whole keyword, so that 'state {' tokenizes as
\* STATE_BLOCK, LEFT_BRACE with no token in between.
C28_KeywordConsumedWhole ==
    [][\A b \in BlockKeywords :
          (pc = "lex" /\ position < Len(content)
              /\ matchKeyword(content, position, b.keyword)) =>
              /\ Len(tokens') = Len(tokens) + 1
              /\ tokens'[Len(tokens')].type = b.type
              /\ position' = position + Len(b.keyword)]_vars

--------------------------------------------------------------------------
(***************************************************************************)
(* Scoped styles: generateStyles() and scopeSelector() of the component    *)
(* class.  A selector is a sequence of characters.                         *)
(***************************************************************************)

MaxSelectorLen == 4     \* characters of a generated selector

SelectorChars == {"a", ":", " "}

\* { s \in Seq(chars) : Len(s) <= n }
RECURSIVE Texts(_, _)
Texts(chars, n) ==
    IF n = 0 THEN {<<>>}
    ELSE LET shorter == Texts(chars, n - 1)
         IN  shorter \cup {Append(t, ch) : t \in shorter, ch \in chars}

\* the selectors of the style block: the keys of ast.style
Selectors ==
    (Texts(SelectorChars, MaxSelectorLen) \ {<<>>})
        \cup { <<":","h","o","s","t">>,
               <<":","h","o","s","t","(","a",")">>,
               <<"b","u","t","t","o","n",":","h","o","v","e","r">>,
               <<"a",":",":","b","e","f","o","r","e">>,
               <<"a",":","n","o","t","(","b",")",":","h","o","v","e","r">> }

\* `ezui-${componentName}-${random}`
ScopeIds == { <<"s","1">>, <<"s","2">> }

startsWith(s, prefix) == Len(s) >= Len(prefix) /\ SubSeq(s, 1, Len(prefix)) = prefix

includes(s, ch) == \E i \in 1 .. Len(s) : s[i] = ch

\* s.split(sep), sep one character
RECURSIVE split(_, _)
split(s, sep) ==
    IF ~includes(s, sep) THEN <<s>>
    ELSE LET i == Min({j \in 1 .. Len(s) : s[j] = sep})
         IN  <<SubSeq(s, 1, i - 1)>> \o split(SubSeq(s, i + 1, Len(s)), sep)

\* scopeSelector(selector, scopeId): "const [base, pseudo] = selector.split(':')"
\* takes the first two parts of the split
scopeSelector(selector, scopeId) ==
    IF startsWith(selector, <<":","h","o","s","t">>) THEN selector
    ELSE IF includes(selector, ":")
         THEN LET parts == split(selector, ":")
              IN  <<".">> \o scopeId \o <<" ">> \o trim(parts[1])
                      \o <<":">> \o trim(parts[2])
         ELSE <<".">> \o scopeId \o <<" ">> \o selector

\* generateStyles() of an instance whose style block has one rule: the
\* scope id is drawn, the selector is scoped and opens the rule in the css
GenerateStyles ==
    /\ ~instance.isDestroyed
    /\ \E selector \in Selectors, scopeId \in ScopeIds :
           returned' = [op |-> "generateStyles", selector |-> selector,
                        scopeId |-> scopeId,
                        scoped |-> scopeSelector(selector, scopeId)]
    /\ UNCHANGED <<crVars, feVars, rsVars, loopVars, ciVars, updateReplaced, computedFn,
                   computedCache, dependencies, dirty, removed, log>>

NextStyles == GenerateStyles

SpecStyles == InitComponent /\ [][NextStyles]_vars

\* the text after the first occurrence of ch in s
afterFirst(s, ch) ==
    SubSeq(s, Min({j \in 1 .. Len(s) : s[j] = ch}) + 1, Len(s))

\* C23: scopeSelector with scope token s rewrites a selector 'base:pseudo'
\* to '.s base:pseudo' (the whole text after the first ':' is kept), rewrites
\* a selector without ':' to '.s selector', and returns a selector starting
\* with ':host' unchanged.
C23_ScopeSelector ==
    returned.op = "generateStyles" =>
        LET sel == returned.selector
            prefix == <<".">> \o returned.scopeId \o <<" ">>
        IN  returned.scoped =
                IF startsWith(sel, <<":","h","o","s","t">>) THEN sel
                ELSE IF includes(sel, ":")
                     THEN prefix \o trim(split(sel, ":")[1]) \o <<":">>
                              \o trim(afterFirst(sel, ":"))
                     ELSE prefix \o sel

--------------------------------------------------------------------------
(***************************************************************************)
(* render() and the render depth counter of the compiler.  render() is     *)
(* synchronous; a render() is entered while another is running when        *)
(* updateDOM() connects a child element whose class the same compiler      *)
(* produced (connectedCallback -> mount -> render).  renderStack holds the *)
(* render() calls on the call stack; instance.renderDepth is               *)
(* compiler.renderDepth, which the instances of one compiler share.        *)
(***************************************************************************)

MaxNesting == 4         \* render() calls on the call stack at once
MaxDepthOption == 3     \* largest maxRenderDepth given to new EZUICompiler()

\* the instances the compiler's classes were instantiated to
InstanceIds == {1, 2}

\* render(): "this.compiler.renderDepth++"
enterRender(depth) == depth + 1

\* the counter after a render() that decrements only when its body returns
leaveRender_OnReturnOnly(depth, raised) == IF raised THEN depth ELSE depth - 1

\* render(): "finally { this.compiler.renderDepth--; }", run when the body
\* returns and when it raises
leaveRender(depth, raised) == depth - 1

\* new EZUICompiler({maxRenderDepth: n})
InitRender ==
    /\ InitReactive /\ FrontendIdle /\ EmptyRegistry
    /\ \E n \in 0 .. MaxDepthOption :
           options = [strictMode |-> TRUE, allowUnsafeEval |-> FALSE,
                      maxRenderDepth |-> n]
    /\ instance = NewInstance(0, "a")
    /\ clock = 0 /\ frames = 0 /\ dispatch = 0
    /\ registry = [components |-> {}, componentsRegistered |-> 0, errors |-> 0]

\* render() of instance id is called, by mount() or safeRender(), or by the
\* connectedCallback() of a child element during the updateDOM() of the
\* render on top of the stack: the early return without a template, the
\* depth test, the increment, and the body up to its first nested call
EnterRender(id, template) ==
    /\ Len(renderStack) < MaxNesting
    /\ IF ~template
       THEN /\ returned' = [op |-> "render", id |-> id, template |-> FALSE,
                            raised |-> FALSE, exceeded |-> FALSE]
            /\ UNCHANGED <<instance, renderStack>>
       ELSE IF renderRaises
       THEN /\ returned' = [op |-> "render", id |-> id, template |-> TRUE,
                            raised |-> TRUE, exceeded |-> TRUE]
            /\ UNCHANGED <<instance, renderStack>>
       ELSE /\ instance' = [instance EXCEPT !.renderDepth = enterRender(@)]
            /\ renderStack' = Append(renderStack,
                                     [id |-> id, entry |-> instance.renderDepth])
            /\ returned' = [op |-> "enter", id |-> id]
    /\ UNCHANGED <<feVars, rsVars, loopVars, updateReplaced, computedFn,
                   computedCache, dependencies, dirty, removed, log, options,
                   clock, frames, dispatch, registry, components, instances,
                   componentCount, objects>>

\* the render() on top of the stack leaves: its body returned, or one of
\* generateStyles(), processTemplate(), updateDOM(), attachEventListeners()
\* raised; the finally block runs in both cases
ExitRender(raised) ==
    /\ renderStack # <<>>
    /\ instance' = [instance EXCEPT !.renderDepth = leaveRender(@, raised)]
    /\ renderStack' = SubSeq(renderStack, 1, Len(renderStack) - 1)
    /\ returned' = [op |-> "render", id |-> renderStack[Len(renderStack)].id,
                    template |-> TRUE, raised |-> raised, exceeded |-> FALSE]
    /\ UNCHANGED <<feVars, rsVars, loopVars, updateReplaced, computedFn,
                   computedCache, dependencies, dirty, removed, log, options,
                   clock, frames, dispatch, registry, components, instances,
                   componentCount, objects>>

NextRender ==
    \/ \E id \in InstanceIds, template \in BOOLEAN : EnterRender(id, template)
    \/ \E raised \in BOOLEAN : ExitRender(raised)

SpecRender == InitRender /\ [][NextRender]_vars

--------------------------------------------------------------------------
(***************************************************************************)
(* The flush scheduler of ReactiveState under update(), flushUpdates() and *)
(* destroy() calls.  User code calls flushUpdates() and destroy() from a   *)
(* task or from a microtask of its own (a promise callback), which takes   *)
(* its turn in the queue between update()'s continuation and the flush.    *)
(***************************************************************************)

MaxLiveCalls == 3       \* update(), flushUpdates() and destroy() calls issued

UserCalls == {"flushUpdates", "destroy"}

\* destroy() leaving updateScheduled as it is
destroyScheduled_Keep(scheduled) == scheduled

\* ReactiveState.destroy(): "this.updateScheduled = false"
destroyScheduled(scheduled) == FALSE

\* ReactiveState.destroy(); the frames whose change it drops from the batch
\* are marked
stateDestroy ==
    /\ listeners' = <<>>
    /\ removed' = removed \cup {listeners[i] : i \in 1 .. Len(listeners)}
    /\ computedCache' = NoValue /\ dependencies' = {}
    /\ validation' = [k \in Keys |-> <<>>]
    /\ middleware' = 0
    /\ history' = <<>>
    /\ batchedUpdates' = <<>>
    /\ updateScheduled' = destroyScheduled(updateScheduled)
    /\ calls' = [i \in 1 .. Len(calls) |->
                   IF \E j \in 1 .. Len(batchedUpdates) : batchedUpdates[j].id = i
                   THEN [calls[i] EXCEPT !.status = "discarded"] ELSE calls[i]]
    /\ UNCHANGED <<data, maxHistorySize, invocations, instance, frames>>

\* the call op does, made now
userCall(op) ==
    IF op = "destroy" THEN stateDestroy
    ELSE flushUpdates /\ UNCHANGED <<data, listeners, validation, middleware, history,
                                     maxHistorySize, dependencies, removed>>

\* user code calls flushUpdates() or destroy(), or defers the call to a
\* microtask: Promise.resolve().then(() => state.destroy())
CallNow(op, deferred) ==
    /\ phase = "sync" /\ Subscribed /\ Issued < MaxLiveCalls
    /\ log' = Append(log, [op |-> op, turn |-> turn])
    /\ IF deferred
       THEN /\ mq' = Append(mq, Task(op, 0, <<>>))
            /\ UNCHANGED <<rsVars, calls, invocations, computedCache, dependencies,
                           removed, instance, frames>>
       ELSE /\ userCall(op)
            /\ mq' = mq
    /\ UNCHANGED <<crVars, feVars, options, clock, dispatch, registry, phase, turn,
                   batchCalls, updateReplaced, computedFn, dirty, returned>>

\* the microtask user code queued runs
RunDeferred ==
    /\ phase = "micro" /\ mq # <<>> /\ Head(mq).kind \in UserCalls
    /\ mq' = Tail(mq)
    /\ userCall(Head(mq).kind)
    /\ UNCHANGED <<crVars, feVars, options, clock, dispatch, registry, phase, turn,
                   batchCalls, updateReplaced, computedFn, dirty, log, returned>>

\* user code calls update(property, value)
CallUpdateLive(k, v) ==
    /\ phase = "sync" /\ Subscribed /\ Issued < MaxLiveCalls
    /\ update(k, v)
    /\ UNCHANGED <<crVars, feVars, ciVars, phase, turn>>

\* the state after the constructing code: an onChange listener and a
\* watcher are subscribed; with no middleware stage every chain resolves,
\* one microtask after the call
InitLive ==
    /\ FrontendIdle /\ NoInstance
    /\ data = initialState
    /\ listeners = <<OnChangeListener>> \o [i \in 1 .. Cardinality(WatchKeys) |->
                                              WatchListener(CHOOSE k \in WatchKeys : TRUE)]
    /\ validation = [k \in Keys |-> <<>>]
    /\ middleware = 0
    /\ history = <<>>
    /\ maxHistorySize = DefaultHistorySize
    /\ batchedUpdates = <<>>
    /\ updateScheduled = FALSE
    /\ phase = "sync" /\ turn = 1 /\ mq = <<>>
    /\ calls = <<>> /\ batchCalls = <<>> /\ invocations = <<>>
    /\ updateReplaced = FALSE
    /\ computedFn = "none" /\ computedCache = NoValue /\ dependencies = {}
    /\ dirty = FALSE /\ removed = {}
    /\ log = <<>> /\ returned = [op |-> "none"]

NextLive ==
    \/ \E k \in Keys, v \in Values : CallUpdateLive(k, v)
    \/ \E op \in UserCalls, deferred \in BOOLEAN : CallNow(op, deferred)
    \/ RunCont
    \/ RunFlush
    \/ RunDeferred
    \/ EndSync
    \/ BeginTurn(MaxLiveCalls)

\* the event loop runs a task's synchronous code to its end and then every
\* microtask in the queue
LiveFairness ==
    /\ WF_vars(EndSync)
    /\ WF_vars(RunCont \/ RunFlush \/ RunDeferred)

SpecLive == InitLive /\ [][NextLive]_vars /\ LiveFairness

\* update() number id has written its value and joined the batch
Written(id) == id <= Len(calls) /\ calls[id].status \in {"written", "discarded"}

\* a flush handed the change of update() number id to the listeners
Flushed(id) == id <= Len(calls) /\ calls[id].flush # 0

\* a destroy() dropped the change of update() number id from the batch
Discarded(id) == id <= Len(calls) /\ calls[id].status = "discarded"

\* a flush is scheduled for every pending update
FlushPending ==
    batchedUpdates # <<>> =>
        updateScheduled /\ \E i \in 1 .. Len(mq) : mq[i].kind = "flush"

\* a flush that delivers leaves the batch empty and the flag reset
FlushReturnsToIdle ==
    [][(\E id \in 1 .. Len(calls) : ~Flushed(id) /\ Flushed(id)')
          => (batchedUpdates' = <<>> /\ ~updateScheduled')]_vars

\* C25: every update that passes validation and whose middleware chain
\* resolves is eventually delivered to the listeners in a flush, and the
\* state machine returns to idle: after that flush the pending batch is empty
\* and updateScheduled is false; no sequence of update, flushUpdates and
\* destroy calls leaves a pending update with no flush scheduled.
C25_EveryUpdateDelivered ==
    /\ \A id \in 1 .. MaxLiveCalls : Written(id) ~> Flushed(id)
    /\ FlushReturnsToIdle
    /\ []FlushPending

\* C25 as amended: every such update is eventually delivered in a flush
\* unless a destroy() called before that flush drops it from the batch.
C25_DeliveredUnlessDestroyed ==
    /\ \A id \in 1 .. MaxLiveCalls : Written(id) ~> (Flushed(id) \/ Discarded(id))
    /\ FlushReturnsToIdle
    /\ []FlushPending

\* an update made after a destroy() that dropped an earlier one was flushed
C25_Witness ==
    \E i, j \in 1 .. MaxLiveCalls :
        /\ Discarded(i) /\ Flushed(j) /\ i < j
        /\ batchedUpdates = <<>> /\ ~updateScheduled

--------------------------------------------------------------------------
(***************************************************************************)
(* Dependency tracking of a computed property whose function reads the     *)
(* state through the proxy createProxy() returns.  "proxy" is the function *)
(* () => p.a + p.b, "branch" the function () => p.a ? p.b : 0, which reads *)
(* b only while a is 1.                                                    *)
(***************************************************************************)

TrackedStyles == {"proxy", "branch"}

\* what the function returns on data d
fnValue(style, d) ==
    IF style = "branch" THEN (IF d["a"] = 1 THEN d["b"] ELSE 0) ELSE computeFn(d)

\* the keys the function reads on data d
fnReads(style, d) ==
    IF style = "branch" THEN (IF d["a"] = 1 THEN {"a", "b"} ELSE {"a"})
    ELSE computeReads

\* the get trap of the proxy, for every key in reads while currentComputed
\* is set: "this.dependencies.get(this.currentComputed).add(property)"
recordDependencies(deps, reads) == deps \cup reads

\* the accessor computed() defined, read once
readTracked ==
    IF computedCache # NoValue
    THEN [value |-> computedCache, cache |-> computedCache,
          deps |-> dependencies, fresh |-> FALSE, reads |-> returned.reads]
    ELSE [value |-> fnValue(computedFn, data), cache |-> fnValue(computedFn, data),
          deps |-> recordDependencies(dependencies, fnReads(computedFn, data)),
          fresh |-> TRUE, reads |-> fnReads(computedFn, data)]

\* user code reads data.sum; reads: the keys the latest evaluation read
ReadTracked ==
    /\ phase = "sync" /\ computedFn \in TrackedStyles
    /\ LET r == readTracked
       IN  /\ computedCache' = r.cache
           /\ dependencies' = r.deps
           /\ returned' = [op |-> "read", value |-> r.value, fresh |-> r.fresh,
                           reads |-> r.reads]
    /\ UNCHANGED <<crVars, feVars, ciVars, rsVars, loopVars, updateReplaced, computedFn,
                   dirty, removed, log>>

NextDependencies ==
    \/ OnChange
    \/ \E k \in WatchKeys : Watch(k)
    \/ \E style \in TrackedStyles : Computed(style)
    \/ \E k \in Keys, v \in Values : CallUpdate(k, v)
    \/ ReadTracked
    \/ RunCont
    \/ RunFlush
    \/ EndSync
    \/ BeginTurn(MaxOps)

SpecDependencies == Init /\ [][NextDependencies]_vars

\* C26: after each recomputation of a computed property, its recorded
\* dependency set equals exactly the set of keys read during that evaluation:
\* keys read in an earlier evaluation but not in the latest one are no longer
\* dependencies, and changing such a key does not invalidate the cache.
C26_DependenciesAreLatestReads ==
    [][/\ (returned'.op = "read" /\ returned'.fresh) =>
              dependencies' = returned'.reads
       /\ (returned.op = "read" /\ computedCache # NoValue
              /\ computedCache' = NoValue) =>
              {batchedUpdates[j].property : j \in 1 .. Len(batchedUpdates)}
                  \cap returned.reads # {}]_vars

--------------------------------------------------------------------------
\* C27: for one component instance, any two event-handler executions are at
\* least 16 ms apart: an event that arrives less than 16 ms after the last
\* executed handler is dropped, not queued or deferred, and changes no state.
C27_HandlersThrottled ==
    [][/\ Len(calls') > Len(calls) =>
              /\ instance.lastEventTime = 0
                     \/ clock - instance.lastEventTime >= ThrottleMs
              /\ instance'.lastEventTime = clock
       /\ (/\ dispatch' = dispatch - 1
           /\ instance.lastEventTime # 0
           /\ clock - instance.lastEventTime < ThrottleMs) =>
              UNCHANGED <<rsVars, opVars, instance, mq, calls, batchCalls,
                          invocations, frames, clock>>]_vars

\* a click reached the button and an ancestor in the same millisecond: the
\* first listener ran the handler, the second was dropped
C27_Witness ==
    /\ instance.clicks = 1 /\ dispatch = 0 /\ instance.clickListeners > 1
    /\ Len(calls) = 1
    /\ instance.lastEventTime = clock

--------------------------------------------------------------------------
(***************************************************************************)
(* evaluateExpression(expression) of a component instance, computed on the *)
(* text of the interpolation and the state of the instance.                *)
(***************************************************************************)
MaxOperand == 2         \* the state values are 0 .. MaxOperand

UndefinedValue == [t |-> "undefined"]

Operands == {<<"a">>, <<"b">>, <<"1">>, <<"2">>}
Operators == {"+", "-", "*", "<", ">"}
Spacings == {<<>>, <<" ">>}

\* whitelisted arithmetic and comparison expressions over the state keys
ArithmeticExpressions ==
    {x \o sp \o <<o>> \o sp \o y :
        x \in Operands, o \in Operators, sp \in Spacings, y \in Operands}

\* plain property paths: a key, a padded key, a missing key, a nested path
PathExpressions ==
    {<<"a">>, <<"b">>, <<" ", "a", " ">>, <<"u">>, <<"a", ".", "b">>}

InterpolationExpressions == ArithmeticExpressions \cup PathExpressions

\* /^[a-zA-Z_][a-zA-Z0-9_.]*$/.test(trimmed)
isPropertyPath(t) ==
    /\ t # <<>>
    /\ t[1] \in Lower \cup Upper \cup {"_"}
    /\ \A i \in 1 .. Len(t) : t[i] \in WordChar \cup {"."}

\* /^[a-zA-Z0-9_. +\-*/()%<>=!&|]+$/.test(trimmed)
isWhitelisted(t) ==
    /\ t # <<>>
    /\ \A i \in 1 .. Len(t) :
           t[i] \in WordChar \cup {".", " ", "+", "-", "*", "/", "(", ")", "%",
                                   "<", ">", "=", "!", "&", "|"}

\* getNestedProperty(path) on a state d whose values are numbers: the first
\* property is looked up in {...data, ...props}; a second one finds a number,
\* not an object, and the loop returns undefined
getNestedProperty(path, d) ==
    LET properties == split(path, ".")
    IN  IF Len(properties) = 1 /\ Len(properties[1]) = 1
           /\ properties[1][1] \in DOMAIN d
        THEN Num(d[properties[1][1]])
        ELSE UndefinedValue

\* "typeof value === 'string' ? `"${value}"` : String(value)"
valueText(value) ==
    IF value.t = "num" THEN NumToChars(value.v)
    ELSE <<"u", "n", "d", "e", "f", "i", "n", "e", "d">>

\* trimmed.replace(/[a-zA-Z_][a-zA-Z0-9_.]*/g, match => ...): every maximal
\* match, left to right, replaced by the text of its value
RECURSIVE replaceProperties(_, _)
replaceProperties(t, d) ==
    IF t = <<>> THEN <<>>
    ELSE IF t[1] \in Lower \cup Upper \cup {"_"}
    THEN LET stop == {i \in 1 .. Len(t) : t[i] \notin WordChar \cup {"."}}
             n == IF stop = {} THEN Len(t) ELSE Min(stop) - 1
         IN  valueText(getNestedProperty(SubSeq(t, 1, n), d))
                 \o replaceProperties(SubSeq(t, n + 1, Len(t)), d)
    ELSE <<t[1]>> \o replaceProperties(Tail(t), d)

isNumeral(t) == t # <<>> /\ \A i \in 1 .. Len(t) : t[i] \in Digit

\* new Function(`return ${text}`)() for a text "numeral operator numeral"
runFunction(text) ==
    LET at == {i \in 1 .. Len(text) : text[i] \in Operators}
        i == Min(at)
        x == trim(SubSeq(text, 1, i - 1))
        y == trim(SubSeq(text, i + 1, Len(text)))
    IN  IF at = {} \/ ~isNumeral(x) \/ ~isNumeral(y) THEN UndefinedValue
        ELSE CASE text[i] = "+" -> Num(DigitsVal(x) + DigitsVal(y))
               [] text[i] = "-" -> Num(DigitsVal(x) - DigitsVal(y))
               [] text[i] = "*" -> Num(DigitsVal(x) * DigitsVal(y))
               [] text[i] = "<" -> Bool(DigitsVal(x) < DigitsVal(y))
               [] text[i] = ">" -> Bool(DigitsVal(x) > DigitsVal(y))

\* "getNestedProperty(trimmed) || ''"
orEmpty(value) ==
    IF value.t = "undefined" \/ ~Truthy(value) THEN Str(<<>>) ELSE value

\* safeExpressionEval(expression)
safeExpressionEval(expression, d, opts) ==
    LET trimmed == trim(expression)
    IN  IF isPropertyPath(trimmed) THEN getNestedProperty(trimmed, d)
        ELSE IF isWhitelisted(trimmed) /\ opts.allowUnsafeEval
        THEN runFunction(replaceProperties(trimmed, d))
        ELSE orEmpty(getNestedProperty(trimmed, d))

\* safeEval(expression, context) of an expression validateExpression lets
\* through: the state keys are the parameters of the function; a name that
\* is no key raises a ReferenceError, which is caught
runInContext(expression, d) ==
    LET trimmed == trim(expression)
    IN  IF isPropertyPath(trimmed)
        THEN IF Len(split(trimmed, ".")[1]) = 1 /\ split(trimmed, ".")[1][1] \in DOMAIN d
             THEN getNestedProperty(trimmed, d)
             ELSE Str(<<>>)
        ELSE runFunction(replaceProperties(trimmed, d))

\* evaluateExpression(expression), returning a value
evaluateToValue(expression, d, opts) ==
    IF ~opts.allowUnsafeEval THEN safeExpressionEval(expression, d, opts)
    ELSE runInContext(expression, d)

InitEvaluate ==
    /\ data \in [Keys -> 0 .. MaxOperand]
    /\ listeners = <<RenderListener>>
    /\ validation = [k \in Keys |-> <<>>]
    /\ middleware = 0
    /\ history = <<>>
    /\ maxHistorySize = DefaultHistorySize
    /\ batchedUpdates = <<>>
    /\ updateScheduled = FALSE
    /\ phase = "sync" /\ turn = 1 /\ mq = <<>>
    /\ calls = <<>> /\ batchCalls = <<>> /\ invocations = <<>>
    /\ updateReplaced = FALSE
    /\ computedFn = "none" /\ computedCache = NoValue /\ dependencies = {}
    /\ dirty = FALSE /\ removed = {}
    /\ log = <<>> /\ returned = [op |-> "none"]
    /\ FrontendIdle /\ EmptyRegistry
    /\ options \in Configurations
    /\ \E e \in InterpolationExpressions : instance = NewInstance(0, e)
    /\ clock = 0 /\ frames = 0 /\ dispatch = 0
    /\ registry = [components |-> {}, componentsRegistered |-> 0, errors |-> 0]

\* processTemplate() evaluates the interpolation of the template
EvaluateExpression ==
    /\ returned.op = "none"
    /\ returned' = [op |-> "evaluateExpression",
                    value |-> evaluateToValue(instance.expression, data, options)]
    /\ UNCHANGED <<crVars, feVars, rsVars, loopVars, ciVars, updateReplaced,
                   computedFn, computedCache, dependencies, dirty, removed, log>>

NextEvaluate == EvaluateExpression

SpecEvaluate == InitEvaluate /\ [][NextEvaluate]_vars

\* C29: in the default configuration, without allowUnsafeEval, an
\* interpolation that is a whitelisted arithmetic or comparison expression
\* over state keys evaluates to the result of that expression with each
\* identifier replaced by its resolved value, and a plain property path that
\* names a state key evaluates to the value of that key.
C29_RestrictedEvaluation ==
    (returned.op = "evaluateExpression" /\ ~options.allowUnsafeEval) =>
        /\ instance.expression \in ArithmeticExpressions =>
               SameValue(returned.value,
                         runFunction(replaceProperties(instance.expression, data)))
        /\ \A k \in Keys : trim(instance.expression) = <<k>> =>
               SameValue(returned.value, Num(data[k]))

--------------------------------------------------------------------------
(***************************************************************************)
(* ComponentRegistry.  objects holds the component instances constructed   *)
(* so far, an instance being named by its index; components is the Map of  *)
(* registered components in insertion order, instances the WeakMap from    *)
(* element to instance, as the set of its entries.                         *)
(***************************************************************************)
MaxObjects == 3         \* component instances constructed

ComponentNames == {"counter"}
Elements == {"e1", "e2"}
ComponentClasses == {1, 2}      \* the classes of two compilations

\* "new ComponentClass(element)": the state starts as ast.state
NewObject(name, class, element) ==
    [name |-> name, class |-> class, element |-> element, state |-> initialState,
     mounted |-> FALSE, unmounts |-> 0]

\* this.components.get(normalizedName): its position in the Map, 0 if absent
componentAt(name) ==
    IF \E i \in 1 .. Len(components) : components[i].name = name
    THEN CHOOSE i \in 1 .. Len(components) : components[i].name = name
    ELSE 0

\* this.instances.get(element): the instance, 0 if absent
getInstance(entries, element) ==
    IF \E x \in entries : x.element = element
    THEN (CHOOSE x \in entries : x.element = element).instance
    ELSE 0

\* this.instances.delete(element)
deleteEntry(entries, element) ==
    {x \in entries : x.element # element}

\* this.instances.set(element, instance)
setEntry(entries, element, id) ==
    deleteEntry(entries, element) \cup {[element |-> element, instance |-> id]}

\* register(name, componentClass): the entry is replaced, with a new Set
register(name, class) ==
    LET entry == [name |-> name, class |-> class, instances |-> {}]
    IN  IF componentAt(name) = 0 THEN Append(components, entry)
        ELSE [components EXCEPT ![componentAt(name)] = entry]

Register(name, class) ==
    /\ components' = register(name, class)
    /\ returned' = [op |-> "register"]
    /\ UNCHANGED <<feVars, rsVars, loopVars, ciVars, updateReplaced, computedFn,
                   computedCache, dependencies, dirty, removed, log, renderStack,
                   instances, componentCount, objects>>

\* createInstance(name, element); it raises for a name that is not registered
CreateInstance(name, element) ==
    /\ Len(objects) < MaxObjects
    /\ componentAt(name) # 0
    /\ LET i == componentAt(name)
           id == Len(objects) + 1
       IN  /\ objects' = Append(objects, NewObject(name, components[i].class, element))
           /\ components' = [components EXCEPT ![i].instances = @ \cup {id}]
           /\ instances' = setEntry(instances, element, id)
           /\ componentCount' = componentCount + 1
           /\ returned' = [op |-> "createInstance"]
    /\ UNCHANGED <<feVars, rsVars, loopVars, ciVars, updateReplaced, computedFn,
                   computedCache, dependencies, dirty, removed, log, renderStack>>

\* destroyInstance(instance) for every instance in ids: onUnmount(), the
\* entry of its element leaves the WeakMap, the instance leaves every Set,
\* componentCount--
RECURSIVE destroyAll(_, _)
destroyAll(ids, r) ==
    IF ids = {} THEN r
    ELSE LET id == Min(ids)
         IN  destroyAll(ids \ {id},
               [objects |-> [r.objects EXCEPT ![id].unmounts = @ + 1],
                instances |-> deleteEntry(r.instances, r.objects[id].element),
                components |-> [i \in 1 .. Len(r.components) |->
                                  [r.components[i] EXCEPT !.instances = @ \ {id}]],
                componentCount |-> r.componentCount - 1])

registryNow ==
    [objects |-> objects, instances |-> instances, components |-> components,
     componentCount |-> componentCount]

\* destroyInstance(instance), also of an instance destroyed before
DestroyInstance(id) ==
    /\ id \in 1 .. Len(objects)
    /\ objects[id].unmounts < 2
    /\ \E r \in {destroyAll({id}, registryNow)} :
           /\ objects' = r.objects /\ instances' = r.instances
           /\ components' = r.components /\ componentCount' = r.componentCount
    /\ returned' = [op |-> "destroyInstance"]
    /\ UNCHANGED <<feVars, rsVars, loopVars, ciVars, updateReplaced, computedFn,
                   computedCache, dependencies, dirty, removed, log, renderStack>>

\* unregister(name): every instance in the Set is destroyed, the entry leaves
\* the Map
Unregister(name) ==
    /\ componentAt(name) # 0
    /\ \E r \in {destroyAll(components[componentAt(name)].instances, registryNow)} :
           /\ objects' = r.objects /\ instances' = r.instances
           /\ components' = SelectSeq(r.components, LAMBDA c : c.name # name)
           /\ componentCount' = r.componentCount
    /\ returned' = [op |-> "unregister"]
    /\ UNCHANGED <<feVars, rsVars, loopVars, ciVars, updateReplaced, computedFn,
                   computedCache, dependencies, dirty, removed, log, renderStack>>

\* the loop of hotReload over component.instances, in insertion order: the
\* snapshot of the instance is written into a new instance by updateBatch,
\* the new instance takes the entry of the element in the WeakMap and is
\* mounted
RECURSIVE reloadAll(_, _, _)
reloadAll(ids, class, r) ==
    IF ids = {} THEN r
    ELSE LET id == Min(ids)
             old == r.objects[id]
             currentState == old.state
             newInstance == [NewObject(old.name, class, old.element)
                               EXCEPT !.state = currentState, !.mounted = TRUE]
         IN  reloadAll(ids \ {id}, class,
               [r EXCEPT !.objects = Append(@, newInstance),
                         !.instances = setEntry(@, old.element, Len(r.objects) + 1)])

\* hotReload(name, newComponentClass)
HotReload(name, class) ==
    /\ IF componentAt(name) = 0
       THEN /\ components' = register(name, class)
            /\ UNCHANGED <<objects, instances>>
       ELSE LET i == componentAt(name)
            IN  /\ Len(objects) + Cardinality(components[i].instances) <= MaxObjects
                /\ components' = [components EXCEPT ![i].class = class]
                /\ \E r \in {reloadAll(components[i].instances, class, registryNow)} :
                       objects' = r.objects /\ instances' = r.instances
    /\ returned' = [op |-> "hotReload", name |-> name]
    /\ UNCHANGED <<feVars, rsVars, loopVars, ciVars, updateReplaced, computedFn,
                   computedCache, dependencies, dirty, removed, log, renderStack,
                   componentCount>>

\* user code or an event handler of the live instance of an element changes
\* its state: getInstance(element).state.updateBatch({[k]: v})
SetState(element, k, v) ==
    /\ getInstance(instances, element) # 0
    /\ LET id == getInstance(instances, element)
       IN  /\ objects[id].state[k] # v
           /\ objects' = [objects EXCEPT ![id].state[k] = v]
           /\ returned' = [op |-> "updateBatch"]
    /\ UNCHANGED <<feVars, rsVars, loopVars, ciVars, updateReplaced, computedFn,
                   computedCache, dependencies, dirty, removed, log, renderStack,
                   components, instances, componentCount>>

NextRegistry ==
    \/ \E name \in ComponentNames, class \in ComponentClasses : Register(name, class)
    \/ \E name \in ComponentNames, element \in Elements : CreateInstance(name, element)
    \/ \E id \in 1 .. MaxObjects : DestroyInstance(id)
    \/ \E name \in ComponentNames : Unregister(name)
    \/ \E name \in ComponentNames, class \in ComponentClasses : HotReload(name, class)
    \/ \E element \in Elements, v \in Values : SetState(element, "a", v)

\* "new ComponentRegistry()"
InitRegistry ==
    /\ InitReactive /\ FrontendIdle /\ EmptyRegistry
    /\ options = [strictMode |-> TRUE, allowUnsafeEval |-> FALSE, maxRenderDepth |-> 100]
    /\ instance = NewInstance(0, "a")
    /\ clock = 0 /\ frames = 0 /\ dispatch = 0
    /\ registry = [components |-> {}, componentsRegistered |-> 0, errors |-> 0]

SpecRegistry == InitRegistry /\ [][NextRegistry]_vars

\* C30: state is preserved across any number of successive hot reloads of a
\* component: for every element with a live instance of the component, the
\* instance that is live after a hotReload holds, for every state key, the
\* value the instance live just before that hotReload held, and the registry
\* tracks the new instance in place of the old one.
C30_HotReloadPreservesState ==
    [][returned'.op = "hotReload" =>
          \A element \in Elements :
              LET old == getInstance(instances, element)
                  new == getInstance(instances', element)
                  i == componentAt(returned'.name)
              IN  (old # 0 /\ objects[old].name = returned'.name /\ i # 0) =>
                      /\ new # old
                      /\ \A k \in Keys : objects'[new].state[k] = objects[old].state[k]
                      /\ new \in components'[i].instances
                      /\ old \notin components'[i].instances]_vars

--------------------------------------------------------------------------
\* a transaction has raised
TransactionFailed ==
    \E j \in 1 .. Len(log) : log[j].op = "transaction" /\ log[j].raised

\* the call update(property, value) this step makes goes through update()
\* itself: nothing is written before its first await, and it is rejected by
\* a validator or left waiting for the middleware chain, after which it
\* writes, appends the history entry and schedules the notification
ThroughUpdate ==
    LET c == calls'[Len(calls')]
    IN  /\ c.status # "captured"
        /\ data' = data
        /\ c.status = "rejected" \/ mq' # mq

\* C31: a transaction that raises leaves the update operation itself intact:
\* every update call made after the failed transaction still validates the
\* value, runs the middleware chain, appends a history entry and schedules a
\* listener notification, exactly as before the transaction.
C31_UpdateIntactAfterFailedTransaction ==
    [][(Len(calls') = Len(calls) + 1 /\ TransactionFailed) => ThroughUpdate]_vars

--------------------------------------------------------------------------
\* the update() calls on the key of call id that wrote before it
WroteBefore(id) ==
    {j \in 1 .. id - 1 : /\ calls[j].property = calls[id].property
                         /\ calls[j].status = "written"}

\* C32: every history entry's oldValue equals the value data held for that
\* key immediately before that entry's write was applied, also when several
\* updates to the same key are in flight at once; hence after update(k, v1)
\* and update(k, v2) issued in one turn have both completed, undo() sets k
\* to v1.
C32_HistoryOldValueIsValueBeforeWrite ==
    [][/\ (\E id \in 1 .. Len(calls) :
              calls[id].status # "written" /\ calls'[id].status = "written") =>
             LET entry == history'[Len(history')]
             IN  entry.oldValue = data[entry.property]
       /\ (Logged("undo") /\ history # <<>>) =>
             LET entry == history[Len(history)]
             IN  WroteBefore(entry.id) # {} =>
                   data'[entry.property] =
                       calls[CHOOSE j \in WroteBefore(entry.id) :
                               \A i \in WroteBefore(entry.id) : i <= j].value]_vars

--------------------------------------------------------------------------
\* C33: every value that update writes into data for a key satisfies all
\* validators registered for that key at the time of the call, including
\* when a middleware stage transforms the value before it is written.
C33_WrittenValuesAreValid ==
    [][\A id \in 1 .. Len(calls) :
          (calls[id].status # "written" /\ calls'[id].status = "written") =>
              /\ data'[calls[id].property] = calls[id].value
              /\ validateProperty(calls[id].property, data'[calls[id].property])]_vars

--------------------------------------------------------------------------
(***************************************************************************)
(* The component instance under attribute changes as well: the custom      *)
(* element's attributeChangedCallback for an observed attribute.           *)
(***************************************************************************)
MaxAttributeChanges == 1    \* attributeChangedCallback() calls

\* attributeChangedCallback(name, oldValue, newValue), in a task of its own
\* or in the task that constructs the instance; isProp: the attribute names
\* a prop and its value differs
AttributeChanged(isProp) ==
    /\ dispatch = 0 /\ Len(log) < MaxAttributeChanges
    /\ phase = "sync" \/ (phase = "micro" /\ mq = <<>>)
    /\ returned' = [op |-> "attributeChangedCallback", raised |-> FALSE]
    /\ log' = Append(log, [op |-> "attributeChangedCallback", turn |-> turn])
    /\ IF isProp THEN scheduleRender ELSE UNCHANGED <<instance, frames>>
    /\ UNCHANGED <<crVars, feVars, rsVars, loopVars, updateReplaced, computedFn,
                   computedCache, dependencies, dirty, removed, options, clock,
                   dispatch, registry>>

NextAttributes ==
    \/ \E via \in {"mount", "connectedCallback"} : Mount(via)
    \/ \E isProp \in BOOLEAN : AttributeChanged(isProp)
    \/ Click
    \/ HandleEvent
    \/ Tick
    \/ RunCont
    \/ RunFlush
    \/ RunFrame
    \/ \E via \in {"destroy", "disconnectedCallback"} : Destroy(via)
    \/ EndSync

SpecAttributes == InitComponent /\ [][NextAttributes]_vars

\* this step is a direct call of mount() by user code
DirectMount == instance'.mounted # instance.mounted /\ returned'.op = "mount"

\* C34: after destroy() of a component instance no render of that instance
\* executes through the scheduled path: a render callback scheduled before
\* destroy and run after it does nothing, later state notifications and
\* attribute changes schedule nothing, and the rendered output stays empty.
C34_NoScheduledRenderAfterDestroy ==
    [][/\ (~instance.isDestroyed /\ instance'.isDestroyed) =>
              instance'.shadowRoot = "" /\ instance'.renderQueue = 0
       /\ (instance.isDestroyed /\ ~DirectMount) =>
              /\ instance'.shadowRoot = instance.shadowRoot
              /\ instance'.renderQueue = instance.renderQueue
              /\ instance'.raisedRenders = instance.raisedRenders
              /\ instance'.executed = instance.executed
              /\ instance'.clickListeners = instance.clickListeners
              /\ frames' <= frames]_vars

\* a render callback scheduled before destroy() has run after it, and the
\* shadow DOM is empty
C34_Witness ==
    /\ instance.isDestroyed /\ instance.mounted
    /\ returned.op = "safeRender"
    /\ instance.shadowRoot = ""

--------------------------------------------------------------------------
(***************************************************************************)
(* The state with a listener that raises among its listeners, and a        *)
(* computed property read through the proxy.                               *)
(***************************************************************************)
ListenerOrders ==
    {<<RaisingListener, OnChangeListener>>, <<OnChangeListener, RaisingListener>>,
     <<RaisingListener, WatchListener("a")>>, <<WatchListener("a"), RaisingListener>>}

InitRaising ==
    /\ FrontendIdle /\ NoInstance
    /\ data = initialState
    /\ listeners \in ListenerOrders
    /\ validation = [k \in Keys |-> <<>>]
    /\ middleware = 0
    /\ history = <<>>
    /\ maxHistorySize = DefaultHistorySize
    /\ batchedUpdates = <<>>
    /\ updateScheduled = FALSE
    /\ phase = "sync" /\ turn = 1 /\ mq = <<>>
    /\ calls = <<>> /\ batchCalls = <<>> /\ invocations = <<>>
    /\ updateReplaced = FALSE
    \* computed('sum', () => p.a + p.b) has been defined and read once
    /\ computedFn = "proxy" /\ computedCache = computeFn(initialState)
    /\ dependencies = computeReads
    /\ dirty = FALSE /\ removed = {}
    /\ log = <<>> /\ returned = [op |-> "none"]

NextRaising ==
    \/ \E k \in Keys, v \in Values : CallUpdate(k, v)
    \/ \E updates \in BatchInputs : CallUpdateBatch(updates)
    \/ Undo
    \/ RunCont
    \/ RunFlush
    \/ RunNotify
    \/ EndSync
    \/ BeginTurn(MaxOps)

SpecRaising == InitRaising /\ [][NextRaising]_vars

\* the listener calls this step made
NewInvocations35 == SubSeq(invocations', Len(invocations) + 1, Len(invocations'))

\* C35: a listener that raises during a notification does not affect the
\* others: every other registered listener is still invoked for that flush,
\* the computed caches depending on the changed keys are still invalidated,
\* and the error does not propagate to the caller of update, updateBatch or
\* undo.
C35_RaisingListenerIsolated ==
    [][(invocations' # invocations
          /\ \E i \in 1 .. Len(listeners) : listeners[i] = RaisingListener) =>
         LET new == NewInvocations35
             changed == {new[1].changes[c].property : c \in 1 .. Len(new[1].changes)}
         IN  /\ Len(new) = Len(listeners)
             /\ \A i \in 1 .. Len(listeners) :
                   /\ new[i].listener = listeners[i]
                   /\ new[i].changes = new[1].changes
             /\ (new[1].src = "flush" /\ dependencies \cap changed # {}) =>
                   computedCache' = NoValue
             /\ returned' = returned
             /\ \A id \in 1 .. Len(calls) : calls'[id].status = calls[id].status]_vars

\* a flush called the raising listener first and the other listener after
\* it, and removed the cached value of the computed property
C35_Witness ==
    /\ computedCache = NoValue /\ dependencies # {}
    /\ \E j \in 1 .. Len(invocations) - 1 :
          /\ invocations[j].listener = RaisingListener
          /\ invocations[j].src = "flush"
          /\ invocations[j + 1].listener # RaisingListener
          /\ invocations[j + 1].src = "flush"
          /\ invocations[j + 1].n = invocations[j].n

--------------------------------------------------------------------------
\* getStats(): totalInstances is componentCount, and each component reports
\* the size of its Set
getStats ==
    [totalComponents |-> Len(components),
     totalInstances |-> componentCount,
     components |-> [i \in 1 .. Len(components) |->
                       [name |-> components[i].name,
                        instances |-> Cardinality(components[i].instances)]]]

RECURSIVE SumInstances(_)
SumInstances(cs) ==
    IF cs = <<>> THEN 0 ELSE Head(cs).instances + SumInstances(Tail(cs))

\* C36: after any sequence of register, createInstance, destroyInstance,
\* unregister and hotReload calls on a ComponentRegistry, the reported
\* totalInstances equals the number of instances currently tracked over all
\* registered components and is never negative.
C36_TotalInstancesIsTracked ==
    /\ getStats.totalInstances = SumInstances(getStats.components)
    /\ getStats.totalInstances >= 0

====
